---- MODULE Spec2Model ----
(***************************************************************************)
(* Bounded single-producer / single-consumer queues of qbuf.               *)
(*                                                                         *)
(* Three back-ends share one contract:                                     *)
(*   "SPSC"       lock-free ring, src/cpp/qbuf/include/qbuf/spsc.hpp       *)
(*   "MmapSPSC"   lock-free ring in double-mapped storage,                 *)
(*                src/include/qbuf/mmap_spsc.hpp                           *)
(*   "MutexQueue" mutex + condition variables,                             *)
(*                src/include/qbuf/mutex_queue.hpp                         *)
(*                                                                         *)
(* The producer thread (holding the Sink) and the consumer thread (holding *)
(* the Source) are two processes.  Every atomic load, atomic store and     *)
(* every access of one slot is one step of its thread, so that all         *)
(* interleavings of the lock-free code are explored.  Atomics are          *)
(* sequentially consistent in the model: a release store followed by the   *)
(* acquire load that reads it orders everything before the store before    *)
(* everything after the load, which is what an interleaving gives.         *)
(***************************************************************************)
EXTENDS Integers, Sequences, FiniteSets, TLC

(* ------------------------------ bounds --------------------------------- *)

\* largest Capacity template argument explored
MaxCapacity == 4
\* number of distinct elements the producer offers in one run
MaxItems == 5
\* largest count passed to a bulk operation
MaxCount == 3
\* largest timeout passed to a timed operation, in ticks
MaxTimeout == 1
\* number of elements in one batch of the shutdown run
BatchSize == 2
\* number of accepted elements after which the producer of the MutexQueue
\* whose every operation is called stops
MutexItems == 2
\* sysconf(_SC_PAGESIZE), in bytes
PageSize == 4
\* largest sizeof(T), in bytes
MaxElemSize == 2
\* number of times the handles of one queue are moved to a new owner
MaxMoves == 2
\* number of elements two threads transfer with timed operations
TimeoutItems == 1

(* ------------------------------ state ---------------------------------- *)

VARIABLES
    backend,    \* which class template the queue instantiates
    Capacity,   \* its Capacity template argument
    harness,    \* "one_thread": one thread holds both handles and calls
                \* them in turn; "two_threads": producer and consumer run
                \* concurrently
    head_,      \* consumer-owned index
    tail_,      \* producer-owned index
    buffer_,    \* the ring: slot index -> slot content
    mtx_,       \* MutexQueue: the thread that holds the mutex, or "free"
    p,          \* producer thread: program counter and locals of its call
    c,          \* consumer thread: program counter and locals of its call
    nextVal,    \* caller side: next fresh element the producer will offer
    enqueued,   \* history: elements published by successful enqueues
    dequeued,   \* history: elements returned by successful dequeues
    owner,      \* the Sink and Source handles and the shared_ptr they hold
    mem         \* the storage of the ring and the OS resources behind it

vars == <<backend, Capacity, harness, head_, tail_, buffer_, mtx_, p, c,
          nextVal, enqueued, dequeued, owner, mem>>

queue == <<head_, tail_, buffer_>>
setup == <<backend, Capacity, harness, owner, mem>>
\* what no step of a lock-free back-end changes
config == <<setup, mtx_>>

(* ------------------------- slots and elements -------------------------- *)

\* Elements are the integers 1..MaxItems.  A slot that holds no element is
\* either a constructed but moved-from / default T (Moved) or raw storage in
\* which no T lives (Raw, double-mapped back-end only).
Moved == 0
Raw == -1
\* content of a caller's output cell that no operation has written
Untouched == -2

Min(a, b) == IF a < b THEN a ELSE b

\* std::size_t arithmetic.  The width is scaled down from 64 bits; every
\* index and count of the model is far below the modulus, so a subtraction
\* that underflows shows as a huge value exactly as in the program.
SizeMod == 2 ^ 16
USub(a, b) == (a - b) % SizeMod

RECURSIVE BitAnd(_, _)
BitAnd(a, b) ==
    IF a = 0 \/ b = 0 THEN 0
    ELSE (a % 2) * (b % 2) + 2 * BitAnd(a \div 2, b \div 2)

\* static_assert(Capacity > 0) and static_assert((Capacity & (Capacity-1)) == 0)
LockFreeAccepts(cap) == cap > 0 /\ BitAnd(cap, cap - 1) = 0
\* static_assert(Capacity > 1)
MutexAccepts(cap) == cap > 1

LockFree == backend \in {"SPSC", "MmapSPSC"}

\* increment without the mask.
increment_unmasked(idx) == idx + 1

\* SPSC::increment
increment(idx) == BitAnd(idx + 1, Capacity - 1)
\* MutexQueue::next without the modulo.
next_unbounded(i) == i + 1

\* MutexQueue::next
next(i) == (i + 1) % Capacity

\* size_of as the plain difference of the indices.
size_of_difference(head, tail) == USub(tail, head)

\* SPSC::size / MmapSPSC::size / MutexQueue::size_unlocked on given indices
size_of(head, tail) ==
    IF tail >= head THEN USub(tail, head) ELSE USub(Capacity, head) + tail

\* the value size() returns when nothing runs concurrently
size == size_of(head_, tail_)
\* the value empty() returns when nothing runs concurrently
empty == (head_ = tail_)

\* The logical content of a ring: the slots from head up to tail.
ContentOf(head, tail, buf) ==
    [k \in 1..((tail - head) % Capacity) |-> buf[(head + k - 1) % Capacity]]

Content == ContentOf(head_, tail_, buffer_)

\* The content of the ring when the call of thread record q began.
PreContent(q) == ContentOf(q.pre[1], q.pre[2], q.pre[3])

(* --------------------------- thread records ---------------------------- *)

\* The producer thread between two calls.  Field names are the locals of the
\* enqueue functions; `value` is the caller's payload variable of a
\* single-element call, `moves` counts how often the call moved from it,
\* `n` is the count argument of the public call, `data` its whole range and
\* `base` the offset at which the running try-function's range starts,
\* `timeout` is the duration argument, `deadline` the time left until the
\* deadline once the call has computed it (`armed`),
\* `retry` tells that the call found the ring full at least once,
\* `pre` is the ring (head_, tail_, buffer_) when the call began,
\* `at_deadline` the other thread's index (head_ for the producer, tail_
\* for the consumer) at the moment the clock reached the deadline of the
\* call (<<>> while it has not), `written` the slots the call has written
\* and `oob` whether it indexed outside the array.  For a call of size()
\* or empty(), `order` is the index that is loaded first and `seen` the
\* pairs <<head_, tail_>> the queue held at the moment of each load.
IdleP == [pc |-> "idle", call |-> "none", n |-> 0, data |-> <<>>, count |-> 0,
          value |-> Moved, moves |-> 0,
          current_tail |-> 0, current_head |-> 0, next_tail |-> 0,
          to_enqueue |-> 0, first_seg_size |-> 0, second_seg_size |-> 0,
          src_idx |-> 0, tail_idx |-> 0, enqueued_total |-> 0, i |-> 0,
          to_write |-> 0, first_chunk |-> 0, second_chunk |-> 0,
          base |-> 0, timeout |-> 0, deadline |-> 0, armed |-> FALSE,
          total_enqueued |-> 0, retry |-> FALSE,
          result |-> 0, pre |-> <<>>, at_deadline |-> <<>>,
          written |-> {}, oob |-> FALSE, order |-> "none", seen |-> <<>>]

\* The consumer thread between two calls.  `out` is the caller's output
\* array (or the returned optional: <<>> for std::nullopt), `read` the slots
\* the call has read.
IdleC == [pc |-> "idle", call |-> "none", n |-> 0, out |-> <<>>, count |-> 0,
          current_head |-> 0, current_tail |-> 0,
          to_dequeue |-> 0, first_segment |-> 0, second_segment |-> 0,
          head_idx |-> 0, dequeued |-> 0, i |-> 0,
          to_read |-> 0, first_chunk |-> 0, second_chunk |-> 0,
          base |-> 0, timeout |-> 0, deadline |-> 0, armed |-> FALSE,
          total_dequeued |-> 0,
          result |-> 0, pre |-> <<>>, at_deadline |-> <<>>,
          read |-> {}, oob |-> FALSE, order |-> "none", seen |-> <<>>]

\* The public call in progress with the locals of the try-function it was
\* running gone: what is left when that function returns.
FrameP ==
    [IdleP EXCEPT !.call = p.call, !.n = p.n, !.data = p.data,
                  !.value = p.value,
                  !.moves = p.moves, !.timeout = p.timeout,
                  !.deadline = p.deadline, !.armed = p.armed,
                  !.total_enqueued = p.total_enqueued, !.retry = p.retry,
                  !.pre = p.pre, !.at_deadline = p.at_deadline,
                  !.written = p.written, !.oob = p.oob]

FrameC(o) ==
    [IdleC EXCEPT !.call = c.call, !.n = c.n, !.out = o,
                  !.timeout = c.timeout, !.deadline = c.deadline,
                  !.armed = c.armed,
                  !.total_dequeued = c.total_dequeued,
                  !.pre = c.pre, !.at_deadline = c.at_deadline,
                  !.read = c.read, !.oob = c.oob]

\* The public call returns r to the caller.
DoneP(r) == [FrameP EXCEPT !.pc = "done", !.armed = FALSE, !.result = r]
DoneC(r, o) == [FrameC(o) EXCEPT !.pc = "done", !.armed = FALSE, !.result = r]

\* Timed single-element enqueue, after try_enqueue returned r:
\*   while (!try_enqueue(...)) { if (now() >= deadline) return false; yield }
\*   return true;
enqueue_after_try(r) ==
    IF r THEN DoneP(TRUE)
    ELSE [FrameP EXCEPT !.pc = "timeout_check", !.retry = TRUE]

\* enqueue_bulk_after_try that reports success as soon as one attempt has
\* stored something.
enqueue_bulk_after_try_any(r) ==
    LET total == p.total_enqueued + r
    IN  IF r = 0
        THEN [FrameP EXCEPT !.pc = "loop", !.total_enqueued = total]
        ELSE [DoneP(TRUE) EXCEPT !.total_enqueued = total]

\* Timed bulk enqueue, after try_enqueue(data + total_enqueued, ...) returned r:
\*   total_enqueued += enqueued; if (total_enqueued < count) yield;
\*   and the loop condition; return true;
enqueue_bulk_after_try(r) ==
    LET total == p.total_enqueued + r
    IN  IF total < Len(p.data)
        THEN [FrameP EXCEPT !.pc = "loop", !.total_enqueued = total]
        ELSE [DoneP(TRUE) EXCEPT !.total_enqueued = total]

\* Timed single-element dequeue, after try_dequeue returned: r tells whether
\* the optional has a value.
dequeue_after_try(r, o) ==
    IF r THEN DoneC(TRUE, o) ELSE [FrameC(o) EXCEPT !.pc = "timeout_check"]

\* dequeue_bulk_after_try that returns after one attempt instead of going
\* round the loop.
dequeue_bulk_after_try_once(r, o) ==
    LET total == c.total_dequeued + r
    IN  [DoneC(total, o) EXCEPT !.total_dequeued = total]

\* Timed bulk dequeue, after try_dequeue(data + total_dequeued, ...) returned r.
dequeue_bulk_after_try(r, o) ==
    LET total == c.total_dequeued + r
    IN  IF total < Len(o)
        THEN [FrameC(o) EXCEPT !.pc = "loop", !.total_dequeued = total]
        ELSE [DoneC(total, o) EXCEPT !.total_dequeued = total]

\* A try-function returns r: to the caller when it was called through the
\* handle, into the loop of the timed operation otherwise.
ReturnP(r) ==
    CASE p.call \in {"enqueue", "enqueue_move"} -> enqueue_after_try(r)
      [] p.call = "enqueue_bulk" -> enqueue_bulk_after_try(r)
      [] OTHER -> DoneP(r)

ReturnC(r, o) ==
    CASE c.call = "dequeue" -> dequeue_after_try(r, o)
      [] c.call = "dequeue_bulk" -> dequeue_bulk_after_try(r, o)
      [] OTHER -> DoneC(r, o)

\* a timed call that has computed its deadline is in progress on the thread
Timed(q) == q.armed
\* std::chrono::steady_clock::now() >= deadline
Expired(q) == q.deadline <= 0

\* A call is in progress on the thread.
InCall(q) == q.pc \notin {"idle", "done"}

\* the call passes an rvalue of the caller's payload
Rvalue(q) == q.call \in {"try_enqueue_move", "enqueue_move"}

\* the Sink / the Source that holds the queue exists
SinkHeld == owner.sink = "held"
SourceHeld == owner.source = "held"

\* One thread holding both handles calls one operation at a time; a call
\* goes through a handle that exists.
MayCallP ==
    /\ SinkHeld
    /\ p.pc = "idle" /\ (harness = "two_threads" \/ c.pc = "idle")
MayCallC ==
    /\ SourceHeld
    /\ c.pc = "idle" /\ (harness = "two_threads" \/ p.pc = "idle")

\* The range data[0..n) the caller passes: the next n fresh elements.
Fresh(n) == [k \in 1..n |-> nextVal + k - 1]

\* buffer_[idx] = v; an index outside the array leaves the ring alone and is
\* recorded by the caller of this operator.
Store(buf, idx, v) == IF idx \in DOMAIN buf THEN [buf EXCEPT ![idx] = v] ELSE buf
\* std::move(buffer_[idx]) read into a T
Load(buf, idx) == IF idx \in DOMAIN buf THEN buf[idx] ELSE Raw

(* ------------------- SPSC: producer, single element -------------------- *)

\* SPSC_try_enqueue_begin with next_tail not wrapped around.
SPSC_try_enqueue_begin_nowrap(q) ==
    [q EXCEPT !.pc = "check", !.count = 1, !.base = 0,
              !.current_tail = tail_,
              !.next_tail = tail_ + 1]

\* try_enqueue(const T&) / try_enqueue(T&&) entered: the relaxed load of tail_.
SPSC_try_enqueue_begin(q) ==
    [q EXCEPT !.pc = "check", !.count = 1, !.base = 0,
              !.current_tail = tail_,
                !.next_tail = increment(tail_)]

\* Sink::try_enqueue(const T&) / Sink::try_enqueue(T&&) called.
SPSC_try_enqueue_call(kind) ==
    /\ backend = "SPSC" /\ MayCallP
    /\ nextVal <= MaxItems
    /\ p' = SPSC_try_enqueue_begin(
                [IdleP EXCEPT !.call = kind, !.n = 1, !.data = Fresh(1),
                              !.value = nextVal, !.pre = queue])
    /\ UNCHANGED <<config, queue, c, nextVal, enqueued, dequeued>>

\* SPSC_try_enqueue_check of a try_enqueue that writes the slot before it
\* looks whether the ring is full.
SPSC_try_enqueue_check_write_first ==
    /\ backend = "SPSC" /\ p.pc = "check"
    /\ buffer_' = Store(buffer_, p.current_tail, p.value)
    /\ p' = IF p.next_tail = head_
            THEN ReturnP(FALSE)
            ELSE [p EXCEPT !.pc = "write", !.current_head = head_]
    /\ UNCHANGED <<config, head_, tail_, c, nextVal, enqueued, dequeued>>

\* if (next_tail == head_.load(acquire)) return false;
SPSC_try_enqueue_check ==
    /\ backend = "SPSC" /\ p.pc = "check"
    /\ p' = IF p.next_tail = head_
            THEN ReturnP(FALSE)
            ELSE [p EXCEPT !.pc = "write", !.current_head = head_]
    /\ UNCHANGED <<config, queue, c, nextVal, enqueued, dequeued>>

\* buffer_[current_tail] = std::move(value);  For the const T& overload the
\* moved object is the temporary T(value), not the caller's variable.
SPSC_try_enqueue_write ==
    /\ backend = "SPSC" /\ p.pc = "write"
    /\ buffer_' = Store(buffer_, p.current_tail, p.value)
    /\ p' = [p EXCEPT !.pc = "publish",
                      !.value = IF Rvalue(p) THEN Moved ELSE @,
                      !.moves = IF Rvalue(p) THEN @ + 1 ELSE @,
                      !.written = @ \cup {p.current_tail},
                      !.oob = @ \/ p.current_tail \notin DOMAIN buffer_]
    /\ UNCHANGED <<config, head_, tail_, c, nextVal, enqueued, dequeued>>

\* tail_.store(next_tail, release); return true;
SPSC_try_enqueue_publish ==
    /\ backend = "SPSC" /\ p.pc = "publish"
    /\ tail_' = p.next_tail
    /\ enqueued' = enqueued \o p.data
    /\ p' = ReturnP(TRUE)
    /\ UNCHANGED <<config, head_, buffer_, c, nextVal, dequeued>>

(* ------------------------ SPSC: producer, bulk ------------------------- *)

\* try_enqueue(const T*, count) entered with count > 0 on the range that
\* starts at data + base: the relaxed load of tail_.
SPSC_try_enqueue_bulk_begin(q, base, count) ==
    [q EXCEPT !.pc = "plan", !.count = count, !.base = base,
              !.current_tail = tail_]

\* Sink::try_enqueue(const T*, count) called: if (count == 0) return 0;
SPSC_try_enqueue_bulk_call(n) ==
    /\ backend = "SPSC" /\ MayCallP
    /\ nextVal + n - 1 <= MaxItems
    /\ LET q == [IdleP EXCEPT !.call = "try_enqueue_bulk", !.n = n,
                              !.data = Fresh(n), !.pre = queue]
       IN  p' = IF n = 0 THEN [q EXCEPT !.pc = "done"]
                ELSE SPSC_try_enqueue_bulk_begin(q, 0, n)
    /\ UNCHANGED <<config, queue, c, nextVal, enqueued, dequeued>>

\* SPSC_enqueue_available without the slot that is kept free.
SPSC_enqueue_available_full(current_tail, current_head) ==
    IF current_tail >= current_head
    THEN USub(Capacity, USub(current_tail, current_head))
    ELSE USub(current_head, current_tail)

\* available space computed from the two index snapshots
SPSC_enqueue_available(current_tail, current_head) ==
    IF current_tail >= current_head
    THEN USub(Capacity - 1, USub(current_tail, current_head))
    ELSE USub(USub(current_head, current_tail), 1)

\* SPSC_first_seg_size that runs the first loop past the end of the array.
SPSC_first_seg_size_unsplit(current_tail, current_head, to_enqueue) ==
    to_enqueue

\* size of the first segment
SPSC_first_seg_size(current_tail, current_head, to_enqueue) ==
    IF current_tail >= current_head
    THEN Min(to_enqueue, USub(Capacity, current_tail))
    ELSE Min(to_enqueue, USub(USub(current_head, current_tail), 1))

\* SPSC_after_first_seg with a second segment bounded by current_head - 2.
SPSC_after_first_seg_short(q) ==
    LET left == q.to_enqueue - q.first_seg_size
        q1 == [q EXCEPT !.enqueued_total = q.first_seg_size,
                        !.tail_idx = BitAnd(q.tail_idx + q.first_seg_size,
                                            Capacity - 1),
                        !.to_enqueue = left,
                        !.src_idx = q.src_idx + q.first_seg_size,
                        !.i = 0]
        second == Min(left, USub(q.current_head, 2))
    IN  IF left > 0
        THEN IF second > 0
             THEN [q1 EXCEPT !.pc = "seg2", !.second_seg_size = second]
             ELSE [q1 EXCEPT !.pc = "store", !.second_seg_size = second,
                             !.tail_idx = second]
        ELSE [q1 EXCEPT !.pc = "store"]

\* The statements between the two copy loops and, when the second loop has
\* nothing to copy, the statements after it.
SPSC_after_first_seg(q) ==
    LET left == q.to_enqueue - q.first_seg_size
        q1 == [q EXCEPT !.enqueued_total = q.first_seg_size,
                        !.tail_idx = BitAnd(q.tail_idx + q.first_seg_size,
                                            Capacity - 1),
                        !.to_enqueue = left,
                        !.src_idx = q.src_idx + q.first_seg_size,
                        !.i = 0]
        second == Min(left, USub(q.current_head, 1))
    IN  IF left > 0
        THEN IF second > 0
             THEN [q1 EXCEPT !.pc = "seg2", !.second_seg_size = second]
             ELSE [q1 EXCEPT !.pc = "store", !.second_seg_size = second,
                             !.tail_idx = second]
        ELSE [q1 EXCEPT !.pc = "store"]

\* acquire load of head_, available, to_enqueue, first_seg_size
SPSC_try_enqueue_bulk_plan ==
    /\ backend = "SPSC" /\ p.pc = "plan"
    /\ LET available == SPSC_enqueue_available(p.current_tail, head_)
           to_enqueue == IF p.count < available THEN p.count ELSE available
           first == SPSC_first_seg_size(p.current_tail, head_, to_enqueue)
           q == [p EXCEPT !.pc = "seg1", !.current_head = head_,
                          !.to_enqueue = to_enqueue,
                          !.first_seg_size = first,
                          !.tail_idx = p.current_tail]
       IN  p' = IF to_enqueue = 0 THEN ReturnP(0)
                ELSE IF first = 0 THEN SPSC_after_first_seg(q)
                ELSE q
    /\ UNCHANGED <<config, queue, c, nextVal, enqueued, dequeued>>

\* SPSC_try_enqueue_bulk_seg1 that stores tail_ after every element.
SPSC_try_enqueue_bulk_seg1_stepwise ==
    /\ backend = "SPSC" /\ p.pc = "seg1" /\ p.i < p.first_seg_size
    /\ LET idx == p.tail_idx + p.i
           q == [p EXCEPT !.i = @ + 1, !.written = @ \cup {idx},
                          !.oob = @ \/ idx \notin DOMAIN buffer_]
       IN  /\ buffer_' = Store(buffer_, idx, p.data[p.base + p.src_idx + p.i + 1])
           /\ tail_' = BitAnd(idx + 1, Capacity - 1)
           /\ p' = IF q.i = q.first_seg_size THEN SPSC_after_first_seg(q) ELSE q
    /\ UNCHANGED <<config, head_, c, nextVal, enqueued, dequeued>>

\* one iteration of: buffer_[tail_idx + i] = data[src_idx + i];
SPSC_try_enqueue_bulk_seg1 ==
    /\ backend = "SPSC" /\ p.pc = "seg1" /\ p.i < p.first_seg_size
    /\ LET idx == p.tail_idx + p.i
           q == [p EXCEPT !.i = @ + 1, !.written = @ \cup {idx},
                          !.oob = @ \/ idx \notin DOMAIN buffer_]
       IN  /\ buffer_' = Store(buffer_, idx, p.data[p.base + p.src_idx + p.i + 1])
           /\ p' = IF q.i = q.first_seg_size THEN SPSC_after_first_seg(q) ELSE q
    /\ UNCHANGED <<config, head_, tail_, c, nextVal, enqueued, dequeued>>

\* one iteration of: buffer_[i] = data[src_idx + i];
SPSC_try_enqueue_bulk_seg2 ==
    /\ backend = "SPSC" /\ p.pc = "seg2" /\ p.i < p.second_seg_size
    /\ LET idx == p.i
           q == [p EXCEPT !.i = @ + 1, !.written = @ \cup {idx},
                          !.oob = @ \/ idx \notin DOMAIN buffer_]
       IN  /\ buffer_' = Store(buffer_, idx, p.data[p.base + p.src_idx + p.i + 1])
           /\ p' = IF q.i = q.second_seg_size
                   THEN [q EXCEPT !.pc = "store",
                                  !.enqueued_total = @ + q.second_seg_size,
                                  !.tail_idx = q.second_seg_size]
                   ELSE q
    /\ UNCHANGED <<config, head_, tail_, c, nextVal, enqueued, dequeued>>

\* tail_.store(tail_idx, release); return enqueued_total;
SPSC_try_enqueue_bulk_store ==
    /\ backend = "SPSC" /\ p.pc = "store"
    /\ tail_' = p.tail_idx
    /\ enqueued' = enqueued \o SubSeq(p.data, p.base + 1, p.base + p.enqueued_total)
    /\ p' = ReturnP(p.enqueued_total)
    /\ UNCHANGED <<config, head_, buffer_, c, nextVal, dequeued>>

\* How many elements of its range the caller knows to be accepted.
Accepted(q) ==
    CASE q.call \in {"try_enqueue", "try_enqueue_move", "enqueue", "enqueue_move"}
           -> (IF q.result THEN 1 ELSE 0)
      [] q.call = "enqueue_bulk" -> q.total_enqueued
      [] OTHER -> q.result

\* The caller takes the result: the elements the call accepted are consumed
\* from the caller's supply, the rest is offered again by a later call.
ProducerReturn ==
    /\ p.pc = "done"
    /\ nextVal' = nextVal + Accepted(p)
    /\ p' = IdleP
    /\ UNCHANGED <<config, queue, c, enqueued, dequeued>>

(* ------------------- SPSC: consumer, single element -------------------- *)

\* try_dequeue() entered: the relaxed load of head_.
SPSC_try_dequeue_begin(q) ==
    [q EXCEPT !.pc = "check", !.count = 1, !.base = 0, !.current_head = head_]

\* Source::try_dequeue() called.
SPSC_try_dequeue_call ==
    /\ backend = "SPSC" /\ MayCallC
    /\ c' = SPSC_try_dequeue_begin(
                [IdleC EXCEPT !.call = "try_dequeue", !.n = 1, !.pre = queue])
    /\ UNCHANGED <<config, queue, p, nextVal, enqueued, dequeued>>

\* SPSC_try_dequeue_check that stores head_ before the slot is read.
SPSC_try_dequeue_check_early_store ==
    /\ backend = "SPSC" /\ c.pc = "check"
    /\ IF c.current_head = tail_
       THEN /\ c' = ReturnC(FALSE, <<>>)
            /\ UNCHANGED head_
       ELSE /\ c' = [c EXCEPT !.pc = "read", !.current_tail = tail_]
            /\ head_' = increment(c.current_head)
    /\ UNCHANGED <<config, tail_, buffer_, p, nextVal, enqueued, dequeued>>

\* if (current_head == tail_.load(acquire)) return std::nullopt;
SPSC_try_dequeue_check ==
    /\ backend = "SPSC" /\ c.pc = "check"
    /\ c' = IF c.current_head = tail_
            THEN ReturnC(FALSE, <<>>)
            ELSE [c EXCEPT !.pc = "read", !.current_tail = tail_]
    /\ UNCHANGED <<config, queue, p, nextVal, enqueued, dequeued>>

\* T value = std::move(buffer_[current_head]);
SPSC_try_dequeue_read ==
    /\ backend = "SPSC" /\ c.pc = "read"
    /\ c' = [c EXCEPT !.pc = "publish",
                      !.out = <<Load(buffer_, c.current_head)>>,
                      !.read = @ \cup {c.current_head},
                      !.oob = @ \/ c.current_head \notin DOMAIN buffer_]
    /\ buffer_' = Store(buffer_, c.current_head, Moved)
    /\ UNCHANGED <<config, head_, tail_, p, nextVal, enqueued, dequeued>>

\* head_.store(increment(current_head), release); return value;
SPSC_try_dequeue_publish ==
    /\ backend = "SPSC" /\ c.pc = "publish"
    /\ head_' = increment(c.current_head)
    /\ dequeued' = dequeued \o c.out
    /\ c' = ReturnC(TRUE, c.out)
    /\ UNCHANGED <<config, tail_, buffer_, p, nextVal, enqueued>>

(* ------------------------ SPSC: consumer, bulk ------------------------- *)

\* try_dequeue(T*, count) entered with count > 0 on the output range that
\* starts at data + base: the relaxed load of head_.
SPSC_try_dequeue_bulk_begin(q, base, count) ==
    [q EXCEPT !.pc = "plan", !.count = count, !.base = base,
              !.current_head = head_]

\* Source::try_dequeue(T*, count) called: if (count == 0) return 0;
SPSC_try_dequeue_bulk_call(n) ==
    /\ backend = "SPSC" /\ MayCallC
    /\ LET q == [IdleC EXCEPT !.call = "try_dequeue_bulk", !.n = n,
                              !.out = [k \in 1..n |-> Untouched],
                              !.pre = queue]
       IN  c' = IF n = 0 THEN [q EXCEPT !.pc = "done"]
                ELSE SPSC_try_dequeue_bulk_begin(q, 0, n)
    /\ UNCHANGED <<config, queue, p, nextVal, enqueued, dequeued>>

\* available elements computed from the two index snapshots
SPSC_dequeue_available(current_head, current_tail) ==
    IF current_tail >= current_head
    THEN USub(current_tail, current_head)
    ELSE USub(Capacity, current_head) + current_tail

\* The statements between the two copy loops and, when the second loop is not
\* entered or has nothing to copy, the statements after it.
SPSC_after_first_segment(q) ==
    LET left == q.to_dequeue - q.first_segment
        q1 == [q EXCEPT !.head_idx =
                            IF q.current_tail >= q.current_head
                            THEN q.head_idx + q.first_segment
                            ELSE BitAnd(q.head_idx + q.first_segment,
                                        Capacity - 1),
                        !.dequeued = q.first_segment,
                        !.to_dequeue = left,
                        !.i = 0]
        second == Min(left, q.current_tail)
    IN  IF left > 0 /\ q1.head_idx = 0
        THEN IF second > 0
             THEN [q1 EXCEPT !.pc = "seg2", !.second_segment = second]
             ELSE [q1 EXCEPT !.pc = "store", !.second_segment = second,
                             !.head_idx = second]
        ELSE [q1 EXCEPT !.pc = "store"]

\* acquire load of tail_, available, to_dequeue, first_segment
SPSC_try_dequeue_bulk_plan ==
    /\ backend = "SPSC" /\ c.pc = "plan"
    /\ LET available == SPSC_dequeue_available(c.current_head, tail_)
           to_dequeue == IF c.count < available THEN c.count ELSE available
           first == IF tail_ >= c.current_head
                    THEN Min(to_dequeue, USub(tail_, c.current_head))
                    ELSE Min(to_dequeue, USub(Capacity, c.current_head))
           q == [c EXCEPT !.pc = "seg1", !.current_tail = tail_,
                          !.to_dequeue = to_dequeue,
                          !.first_segment = first,
                          !.head_idx = c.current_head]
       IN  c' = IF to_dequeue = 0 THEN ReturnC(0, c.out)
                ELSE IF first = 0 THEN SPSC_after_first_segment(q)
                ELSE q
    /\ UNCHANGED <<config, queue, p, nextVal, enqueued, dequeued>>

\* one iteration of: data[i] = std::move(buffer_[head_idx + i]);
SPSC_try_dequeue_bulk_seg1 ==
    /\ backend = "SPSC" /\ c.pc = "seg1" /\ c.i < c.first_segment
    /\ LET idx == c.head_idx + c.i
           q == [c EXCEPT !.i = @ + 1, !.read = @ \cup {idx},
                          !.out[c.base + c.i + 1] = Load(buffer_, idx),
                          !.oob = @ \/ idx \notin DOMAIN buffer_]
       IN  /\ buffer_' = Store(buffer_, idx, Moved)
           /\ c' = IF q.i = q.first_segment
                   THEN SPSC_after_first_segment(q) ELSE q
    /\ UNCHANGED <<config, head_, tail_, p, nextVal, enqueued, dequeued>>

\* one iteration of: data[dequeued + i] = std::move(buffer_[i]);
SPSC_try_dequeue_bulk_seg2 ==
    /\ backend = "SPSC" /\ c.pc = "seg2" /\ c.i < c.second_segment
    /\ LET idx == c.i
           q == [c EXCEPT !.i = @ + 1, !.read = @ \cup {idx},
                          !.out[c.base + c.dequeued + c.i + 1] = Load(buffer_, idx),
                          !.oob = @ \/ idx \notin DOMAIN buffer_]
       IN  /\ buffer_' = Store(buffer_, idx, Moved)
           /\ c' = IF q.i = q.second_segment
                   THEN [q EXCEPT !.pc = "store",
                                  !.head_idx = q.second_segment,
                                  !.dequeued = @ + q.second_segment]
                   ELSE q
    /\ UNCHANGED <<config, head_, tail_, p, nextVal, enqueued, dequeued>>

\* head_.store(head_idx, release); return dequeued;
SPSC_try_dequeue_bulk_store ==
    /\ backend = "SPSC" /\ c.pc = "store"
    /\ head_' = c.head_idx
    /\ dequeued' = dequeued \o SubSeq(c.out, c.base + 1, c.base + c.dequeued)
    /\ c' = ReturnC(c.dequeued, c.out)
    /\ UNCHANGED <<config, tail_, buffer_, p, nextVal, enqueued>>

(* ----------------- MmapSPSC: producer, single element ------------------ *)

\* try_enqueue(const T&) / try_enqueue(T&&) entered: the relaxed load of tail_.
Mmap_try_enqueue_begin(q) ==
    [q EXCEPT !.pc = "check", !.count = 1, !.base = 0,
              !.current_tail = tail_]

\* Sink::try_enqueue(const T&) / Sink::try_enqueue(T&&) called.
Mmap_try_enqueue_call(kind) ==
    /\ backend = "MmapSPSC" /\ MayCallP
    /\ nextVal <= MaxItems
    /\ p' = Mmap_try_enqueue_begin(
                [IdleP EXCEPT !.call = kind, !.n = 1, !.data = Fresh(1),
                              !.value = nextVal, !.pre = queue])
    /\ UNCHANGED <<config, queue, c, nextVal, enqueued, dequeued>>

\* Mmap_try_enqueue_check of a try_enqueue that takes its argument by value:
\* the caller's payload is moved from before the ring is found full.
Mmap_try_enqueue_check_by_value ==
    /\ backend = "MmapSPSC" /\ p.pc = "check"
    /\ LET next_tail == BitAnd(p.current_tail + 1, Capacity - 1)
       IN  p' = IF next_tail = head_
                THEN [ReturnP(FALSE) EXCEPT
                         !.value = IF Rvalue(p) THEN Moved ELSE @,
                         !.moves = IF Rvalue(p) THEN @ + 1 ELSE @]
                ELSE [p EXCEPT !.pc = "write", !.current_head = head_,
                               !.next_tail = next_tail]
    /\ UNCHANGED <<config, queue, c, nextVal, enqueued, dequeued>>

\* acquire load of head_; next_tail = (current_tail + 1) & (Capacity - 1);
\* if (next_tail == current_head) return false;
Mmap_try_enqueue_check ==
    /\ backend = "MmapSPSC" /\ p.pc = "check"
    /\ LET next_tail == BitAnd(p.current_tail + 1, Capacity - 1)
       IN  p' = IF next_tail = head_
                THEN ReturnP(FALSE)
                ELSE [p EXCEPT !.pc = "write", !.current_head = head_,
                               !.next_tail = next_tail]
    /\ UNCHANGED <<config, queue, c, nextVal, enqueued, dequeued>>

\* new (&buffer_[current_tail]) T(value);  or  T(std::move(value));
Mmap_try_enqueue_write ==
    /\ backend = "MmapSPSC" /\ p.pc = "write"
    /\ buffer_' = Store(buffer_, p.current_tail, p.value)
    /\ p' = [p EXCEPT !.pc = "publish",
                      !.value = IF Rvalue(p) THEN Moved ELSE @,
                      !.moves = IF Rvalue(p) THEN @ + 1 ELSE @,
                      !.written = @ \cup {p.current_tail},
                      !.oob = @ \/ p.current_tail \notin DOMAIN buffer_]
    /\ UNCHANGED <<config, head_, tail_, c, nextVal, enqueued, dequeued>>

\* tail_.store(next_tail, release); return true;
Mmap_try_enqueue_publish ==
    /\ backend = "MmapSPSC" /\ p.pc = "publish"
    /\ tail_' = p.next_tail
    /\ enqueued' = enqueued \o p.data
    /\ p' = ReturnP(TRUE)
    /\ UNCHANGED <<config, head_, buffer_, c, nextVal, dequeued>>

(* ---------------------- MmapSPSC: producer, bulk ----------------------- *)

\* try_enqueue(const T*, count) entered with count > 0 on the range that
\* starts at data + base: the relaxed load of tail_.
Mmap_try_enqueue_bulk_begin(q, base, count) ==
    [q EXCEPT !.pc = "plan", !.count = count, !.base = base,
              !.current_tail = tail_]

\* Sink::try_enqueue(const T*, count) called: if (count == 0) return 0;
Mmap_try_enqueue_bulk_call(n) ==
    /\ backend = "MmapSPSC" /\ MayCallP
    /\ nextVal + n - 1 <= MaxItems
    /\ LET q == [IdleP EXCEPT !.call = "try_enqueue_bulk", !.n = n,
                              !.data = Fresh(n), !.pre = queue]
       IN  p' = IF n = 0 THEN [q EXCEPT !.pc = "done"]
                ELSE Mmap_try_enqueue_bulk_begin(q, 0, n)
    /\ UNCHANGED <<config, queue, c, nextVal, enqueued, dequeued>>

\* available space computed from the two index snapshots
Mmap_enqueue_available(current_tail, current_head) ==
    IF current_head > current_tail
    THEN USub(USub(current_head, current_tail), 1)
    ELSE USub(USub(Capacity, current_tail) + current_head, 1)

\* first_chunk of a batch that is never split.
Mmap_enqueue_first_chunk_unsplit(current_tail, to_write) == to_write

\* first_chunk
Mmap_enqueue_first_chunk(current_tail, to_write) ==
    IF current_tail + to_write <= Capacity
    THEN to_write
    ELSE USub(Capacity, current_tail)

\* The statement between the two construction loops.
Mmap_after_first_chunk_enq(q) ==
    LET second == USub(q.to_write, q.first_chunk)
    IN  [q EXCEPT !.second_chunk = second, !.i = 0,
                  !.pc = IF second > 0 THEN "chunk2" ELSE "store"]

\* acquire load of head_, available, to_write, first_chunk
Mmap_try_enqueue_bulk_plan ==
    /\ backend = "MmapSPSC" /\ p.pc = "plan"
    /\ LET available == Mmap_enqueue_available(p.current_tail, head_)
           to_write == IF p.count < available THEN p.count ELSE available
           first == Mmap_enqueue_first_chunk(p.current_tail, to_write)
           q == [p EXCEPT !.pc = "chunk1", !.current_head = head_,
                          !.to_write = to_write, !.first_chunk = first]
       IN  p' = IF to_write = 0 THEN ReturnP(0)
                ELSE IF first = 0 THEN Mmap_after_first_chunk_enq(q)
                ELSE q
    /\ UNCHANGED <<config, queue, c, nextVal, enqueued, dequeued>>

\* one iteration of: new (&buffer_[current_tail + i]) T(data[i]);
Mmap_try_enqueue_bulk_chunk1 ==
    /\ backend = "MmapSPSC" /\ p.pc = "chunk1" /\ p.i < p.first_chunk
    /\ LET idx == p.current_tail + p.i
           q == [p EXCEPT !.i = @ + 1, !.written = @ \cup {idx},
                          !.oob = @ \/ idx \notin DOMAIN buffer_]
       IN  /\ buffer_' = Store(buffer_, idx, p.data[p.base + p.i + 1])
           /\ p' = IF q.i = q.first_chunk
                   THEN Mmap_after_first_chunk_enq(q) ELSE q
    /\ UNCHANGED <<config, head_, tail_, c, nextVal, enqueued, dequeued>>

\* one iteration of: new (&buffer_[i]) T(data[first_chunk + i]);
Mmap_try_enqueue_bulk_chunk2 ==
    /\ backend = "MmapSPSC" /\ p.pc = "chunk2" /\ p.i < p.second_chunk
    /\ LET idx == p.i
           q == [p EXCEPT !.i = @ + 1, !.written = @ \cup {idx},
                          !.oob = @ \/ idx \notin DOMAIN buffer_]
       IN  /\ buffer_' = Store(buffer_, idx, p.data[p.base + p.first_chunk + p.i + 1])
           /\ p' = IF q.i = q.second_chunk THEN [q EXCEPT !.pc = "store"] ELSE q
    /\ UNCHANGED <<config, head_, tail_, c, nextVal, enqueued, dequeued>>

\* tail_.store((current_tail + to_write) & (Capacity - 1), release);
\* return to_write;
Mmap_try_enqueue_bulk_store ==
    /\ backend = "MmapSPSC" /\ p.pc = "store"
    /\ tail_' = BitAnd(p.current_tail + p.to_write, Capacity - 1)
    /\ enqueued' = enqueued \o SubSeq(p.data, p.base + 1, p.base + p.to_write)
    /\ p' = ReturnP(p.to_write)
    /\ UNCHANGED <<config, head_, buffer_, c, nextVal, dequeued>>

(* ----------------- MmapSPSC: consumer, single element ------------------ *)

\* try_dequeue() entered: the relaxed load of head_.
Mmap_try_dequeue_begin(q) ==
    [q EXCEPT !.pc = "check", !.count = 1, !.base = 0, !.current_head = head_]

\* Source::try_dequeue() called.
Mmap_try_dequeue_call ==
    /\ backend = "MmapSPSC" /\ MayCallC
    /\ c' = Mmap_try_dequeue_begin(
                [IdleC EXCEPT !.call = "try_dequeue", !.n = 1, !.pre = queue])
    /\ UNCHANGED <<config, queue, p, nextVal, enqueued, dequeued>>

\* Mmap_try_dequeue_check that waits until the queue holds an element.
Mmap_try_dequeue_check_wait ==
    /\ backend = "MmapSPSC" /\ c.pc = "check"
    /\ c.current_head # tail_
    /\ c' = [c EXCEPT !.pc = "read", !.current_tail = tail_]
    /\ UNCHANGED <<config, queue, p, nextVal, enqueued, dequeued>>

\* acquire load of tail_; if (current_head == current_tail) return nullopt;
Mmap_try_dequeue_check ==
    /\ backend = "MmapSPSC" /\ c.pc = "check"
    /\ c' = IF c.current_head = tail_
            THEN ReturnC(FALSE, <<>>)
            ELSE [c EXCEPT !.pc = "read", !.current_tail = tail_]
    /\ UNCHANGED <<config, queue, p, nextVal, enqueued, dequeued>>

\* Mmap_try_dequeue_read without the call of the destructor.
Mmap_try_dequeue_read_keep ==
    /\ backend = "MmapSPSC" /\ c.pc = "read"
    /\ c' = [c EXCEPT !.pc = "publish",
                      !.out = <<Load(buffer_, c.current_head)>>,
                      !.read = @ \cup {c.current_head},
                      !.oob = @ \/ c.current_head \notin DOMAIN buffer_]
    /\ UNCHANGED <<config, queue, p, nextVal, enqueued, dequeued>>

\* T value = std::move(buffer_[current_head]); buffer_[current_head].~T();
Mmap_try_dequeue_read ==
    /\ backend = "MmapSPSC" /\ c.pc = "read"
    /\ c' = [c EXCEPT !.pc = "publish",
                      !.out = <<Load(buffer_, c.current_head)>>,
                      !.read = @ \cup {c.current_head},
                      !.oob = @ \/ c.current_head \notin DOMAIN buffer_]
    /\ buffer_' = Store(buffer_, c.current_head, Raw)
    /\ UNCHANGED <<config, head_, tail_, p, nextVal, enqueued, dequeued>>

\* head_.store((current_head + 1) & (Capacity - 1), release); return value;
Mmap_try_dequeue_publish ==
    /\ backend = "MmapSPSC" /\ c.pc = "publish"
    /\ head_' = BitAnd(c.current_head + 1, Capacity - 1)
    /\ dequeued' = dequeued \o c.out
    /\ c' = ReturnC(TRUE, c.out)
    /\ UNCHANGED <<config, tail_, buffer_, p, nextVal, enqueued>>

(* ---------------------- MmapSPSC: consumer, bulk ----------------------- *)

\* try_dequeue(T*, count) entered with count > 0 on the output range that
\* starts at data + base: the relaxed load of head_.
Mmap_try_dequeue_bulk_begin(q, base, count) ==
    [q EXCEPT !.pc = "plan", !.count = count, !.base = base,
              !.current_head = head_]

\* Source::try_dequeue(T*, count) called: if (count == 0) return 0;
Mmap_try_dequeue_bulk_call(n) ==
    /\ backend = "MmapSPSC" /\ MayCallC
    /\ LET q == [IdleC EXCEPT !.call = "try_dequeue_bulk", !.n = n,
                              !.out = [k \in 1..n |-> Untouched],
                              !.pre = queue]
       IN  c' = IF n = 0 THEN [q EXCEPT !.pc = "done"]
                ELSE Mmap_try_dequeue_bulk_begin(q, 0, n)
    /\ UNCHANGED <<config, queue, p, nextVal, enqueued, dequeued>>

\* available elements computed from the two index snapshots
Mmap_dequeue_available(current_head, current_tail) ==
    IF current_tail >= current_head
    THEN USub(current_tail, current_head)
    ELSE USub(Capacity, current_head) + current_tail

\* first_chunk
Mmap_dequeue_first_chunk(current_head, to_read) ==
    IF current_head + to_read <= Capacity
    THEN to_read
    ELSE USub(Capacity, current_head)

\* The statement between the two move-and-destroy loops.
Mmap_after_first_chunk_deq(q) ==
    LET second == USub(q.to_read, q.first_chunk)
    IN  [q EXCEPT !.second_chunk = second, !.i = 0,
                  !.pc = IF second > 0 THEN "chunk2" ELSE "store"]

\* acquire load of tail_, available, to_read, first_chunk
Mmap_try_dequeue_bulk_plan ==
    /\ backend = "MmapSPSC" /\ c.pc = "plan"
    /\ LET available == Mmap_dequeue_available(c.current_head, tail_)
           to_read == IF c.count < available THEN c.count ELSE available
           first == Mmap_dequeue_first_chunk(c.current_head, to_read)
           q == [c EXCEPT !.pc = "chunk1", !.current_tail = tail_,
                          !.to_read = to_read, !.first_chunk = first]
       IN  c' = IF to_read = 0 THEN ReturnC(0, c.out)
                ELSE IF first = 0 THEN Mmap_after_first_chunk_deq(q)
                ELSE q
    /\ UNCHANGED <<config, queue, p, nextVal, enqueued, dequeued>>

\* one iteration of: data[i] = std::move(buffer_[current_head + i]);
\*                   buffer_[current_head + i].~T();
Mmap_try_dequeue_bulk_chunk1 ==
    /\ backend = "MmapSPSC" /\ c.pc = "chunk1" /\ c.i < c.first_chunk
    /\ LET idx == c.current_head + c.i
           q == [c EXCEPT !.i = @ + 1, !.read = @ \cup {idx},
                          !.out[c.base + c.i + 1] = Load(buffer_, idx),
                          !.oob = @ \/ idx \notin DOMAIN buffer_]
       IN  /\ buffer_' = Store(buffer_, idx, Raw)
           /\ c' = IF q.i = q.first_chunk
                   THEN Mmap_after_first_chunk_deq(q) ELSE q
    /\ UNCHANGED <<config, head_, tail_, p, nextVal, enqueued, dequeued>>

\* one iteration of: data[first_chunk + i] = std::move(buffer_[i]);
\*                   buffer_[i].~T();
Mmap_try_dequeue_bulk_chunk2 ==
    /\ backend = "MmapSPSC" /\ c.pc = "chunk2" /\ c.i < c.second_chunk
    /\ LET idx == c.i
           q == [c EXCEPT !.i = @ + 1, !.read = @ \cup {idx},
                          !.out[c.base + c.first_chunk + c.i + 1] = Load(buffer_, idx),
                          !.oob = @ \/ idx \notin DOMAIN buffer_]
       IN  /\ buffer_' = Store(buffer_, idx, Raw)
           /\ c' = IF q.i = q.second_chunk THEN [q EXCEPT !.pc = "store"] ELSE q
    /\ UNCHANGED <<config, head_, tail_, p, nextVal, enqueued, dequeued>>

\* head_.store((current_head + to_read) & (Capacity - 1), release);
\* return to_read;
Mmap_try_dequeue_bulk_store ==
    /\ backend = "MmapSPSC" /\ c.pc = "store"
    /\ head_' = BitAnd(c.current_head + c.to_read, Capacity - 1)
    /\ dequeued' = dequeued \o SubSeq(c.out, c.base + 1, c.base + c.to_read)
    /\ c' = ReturnC(c.to_read, c.out)
    /\ UNCHANGED <<config, tail_, buffer_, p, nextVal, enqueued>>

(* --------------------- SPSC: timed operations ---------------------- *)

\* Sink::enqueue(const T&, timeout) / Sink::enqueue(T&&, timeout) called:
\* deadline = now() + timeout, then the first try_enqueue is entered.
SPSC_enqueue_call(kind, timeout) ==
    /\ backend = "SPSC" /\ MayCallP
    /\ nextVal <= MaxItems
    /\ p' = SPSC_try_enqueue_begin(
                [IdleP EXCEPT !.call = kind, !.n = 1, !.data = Fresh(1),
                              !.value = nextVal, !.timeout = timeout, !.deadline = timeout,
                              !.armed = TRUE,
                              !.pre = queue])
    /\ UNCHANGED <<config, queue, c, nextVal, enqueued, dequeued>>

\* try_enqueue returned false: if (now() >= deadline) return false;
\* otherwise yield() and enter try_enqueue again.
SPSC_enqueue_timeout_check ==
    /\ backend = "SPSC" /\ p.pc = "timeout_check"
    /\ p' = IF Expired(p) THEN DoneP(FALSE)
            ELSE SPSC_try_enqueue_begin(p)
    /\ UNCHANGED <<config, queue, c, nextVal, enqueued, dequeued>>

\* Sink::enqueue(const T*, count, timeout) called:
\* if (count == 0) return true; deadline = now() + timeout; total_enqueued = 0;
SPSC_enqueue_bulk_call(n, timeout) ==
    /\ backend = "SPSC" /\ MayCallP
    /\ nextVal + n - 1 <= MaxItems
    /\ LET q == [IdleP EXCEPT !.call = "enqueue_bulk", !.n = n,
                              !.data = Fresh(n), !.pre = queue]
       IN  p' = IF n = 0 THEN [q EXCEPT !.pc = "done", !.result = TRUE]
                ELSE [q EXCEPT !.pc = "loop", !.timeout = timeout, !.deadline = timeout,
                              !.armed = TRUE]
    /\ UNCHANGED <<config, queue, c, nextVal, enqueued, dequeued>>

\* SPSC_enqueue_bulk_loop that takes back, on timeout, what the call has
\* published: tail_ returns to its value at the call.
SPSC_enqueue_bulk_loop_rollback ==
    /\ backend = "SPSC" /\ p.pc = "loop"
    /\ p' = IF Expired(p) THEN DoneP(FALSE)
            ELSE SPSC_try_enqueue_bulk_begin(p, p.total_enqueued,
                                             p.n - p.total_enqueued)
    /\ tail_' = IF Expired(p) THEN p.pre[2] ELSE tail_
    /\ UNCHANGED <<config, head_, buffer_, c, nextVal, enqueued, dequeued>>

\* One pass of while (total_enqueued < count), up to the entry of
\* try_enqueue: if (now() >= deadline) return false;
\* try_enqueue(data + total_enqueued, count - total_enqueued)
SPSC_enqueue_bulk_loop ==
    /\ backend = "SPSC" /\ p.pc = "loop"
    /\ p' = IF Expired(p) THEN DoneP(FALSE)
            ELSE SPSC_try_enqueue_bulk_begin(p, p.total_enqueued,
                                             p.n - p.total_enqueued)
    /\ UNCHANGED <<config, queue, c, nextVal, enqueued, dequeued>>

\* Source::dequeue(timeout) called: deadline = now() + timeout, then the
\* first try_dequeue is entered.
SPSC_dequeue_call(timeout) ==
    /\ backend = "SPSC" /\ MayCallC
    /\ c' = SPSC_try_dequeue_begin(
                [IdleC EXCEPT !.call = "dequeue", !.n = 1,
                              !.timeout = timeout, !.deadline = timeout,
                              !.armed = TRUE, !.pre = queue])
    /\ UNCHANGED <<config, queue, p, nextVal, enqueued, dequeued>>

\* try_dequeue returned nullopt: if (now() >= deadline) return nullopt;
\* otherwise yield() and enter try_dequeue again.
SPSC_dequeue_timeout_check ==
    /\ backend = "SPSC" /\ c.pc = "timeout_check"
    /\ c' = IF Expired(c) THEN DoneC(FALSE, <<>>)
            ELSE SPSC_try_dequeue_begin(c)
    /\ UNCHANGED <<config, queue, p, nextVal, enqueued, dequeued>>

\* Source::dequeue(T*, count, timeout) called:
\* if (count == 0) return 0; deadline = now() + timeout; total_dequeued = 0;
SPSC_dequeue_bulk_call(n, timeout) ==
    /\ backend = "SPSC" /\ MayCallC
    /\ LET q == [IdleC EXCEPT !.call = "dequeue_bulk", !.n = n,
                              !.out = [k \in 1..n |-> Untouched],
                              !.pre = queue]
       IN  c' = IF n = 0 THEN [q EXCEPT !.pc = "done"]
                ELSE [q EXCEPT !.pc = "loop", !.timeout = timeout, !.deadline = timeout,
                              !.armed = TRUE]
    /\ UNCHANGED <<config, queue, p, nextVal, enqueued, dequeued>>

\* One pass of while (total_dequeued < count), up to the entry of
\* try_dequeue: if (now() >= deadline) return total_dequeued;
\* try_dequeue(data + total_dequeued, count - total_dequeued)
SPSC_dequeue_bulk_loop ==
    /\ backend = "SPSC" /\ c.pc = "loop"
    /\ c' = IF Expired(c)
            THEN DoneC(c.total_dequeued, c.out)
            ELSE SPSC_try_dequeue_bulk_begin(c, c.total_dequeued,
                                             c.n - c.total_dequeued)
    /\ UNCHANGED <<config, queue, p, nextVal, enqueued, dequeued>>

(* --------------------- MmapSPSC: timed operations ---------------------- *)

\* Sink::enqueue(const T&, timeout) / Sink::enqueue(T&&, timeout) called:
\* deadline = now() + timeout, then the first try_enqueue is entered.
Mmap_enqueue_call(kind, timeout) ==
    /\ backend = "MmapSPSC" /\ MayCallP
    /\ nextVal <= MaxItems
    /\ p' = Mmap_try_enqueue_begin(
                [IdleP EXCEPT !.call = kind, !.n = 1, !.data = Fresh(1),
                              !.value = nextVal, !.timeout = timeout, !.deadline = timeout,
                              !.armed = TRUE,
                              !.pre = queue])
    /\ UNCHANGED <<config, queue, c, nextVal, enqueued, dequeued>>

\* try_enqueue returned false: if (now() >= deadline) return false;
\* otherwise yield() and enter try_enqueue again.
Mmap_enqueue_timeout_check ==
    /\ backend = "MmapSPSC" /\ p.pc = "timeout_check"
    /\ p' = IF Expired(p) THEN DoneP(FALSE)
            ELSE Mmap_try_enqueue_begin(p)
    /\ UNCHANGED <<config, queue, c, nextVal, enqueued, dequeued>>

\* Sink::enqueue(const T*, count, timeout) called:
\* if (count == 0) return true; deadline = now() + timeout; total_enqueued = 0;
Mmap_enqueue_bulk_call(n, timeout) ==
    /\ backend = "MmapSPSC" /\ MayCallP
    /\ nextVal + n - 1 <= MaxItems
    /\ LET q == [IdleP EXCEPT !.call = "enqueue_bulk", !.n = n,
                              !.data = Fresh(n), !.pre = queue]
       IN  p' = IF n = 0 THEN [q EXCEPT !.pc = "done", !.result = TRUE]
                ELSE [q EXCEPT !.pc = "loop", !.timeout = timeout, !.deadline = timeout,
                              !.armed = TRUE]
    /\ UNCHANGED <<config, queue, c, nextVal, enqueued, dequeued>>

\* One pass of while (total_enqueued < count), up to the entry of
\* try_enqueue: if (now() >= deadline) return false;
\* try_enqueue(data + total_enqueued, count - total_enqueued)
Mmap_enqueue_bulk_loop ==
    /\ backend = "MmapSPSC" /\ p.pc = "loop"
    /\ p' = IF Expired(p) THEN DoneP(FALSE)
            ELSE Mmap_try_enqueue_bulk_begin(p, p.total_enqueued,
                                             p.n - p.total_enqueued)
    /\ UNCHANGED <<config, queue, c, nextVal, enqueued, dequeued>>

\* Source::dequeue(timeout) called: deadline = now() + timeout, then the
\* first try_dequeue is entered.
Mmap_dequeue_call(timeout) ==
    /\ backend = "MmapSPSC" /\ MayCallC
    /\ c' = Mmap_try_dequeue_begin(
                [IdleC EXCEPT !.call = "dequeue", !.n = 1,
                              !.timeout = timeout, !.deadline = timeout,
                              !.armed = TRUE, !.pre = queue])
    /\ UNCHANGED <<config, queue, p, nextVal, enqueued, dequeued>>

\* try_dequeue returned nullopt: if (now() >= deadline) return nullopt;
\* otherwise yield() and enter try_dequeue again.
Mmap_dequeue_timeout_check ==
    /\ backend = "MmapSPSC" /\ c.pc = "timeout_check"
    /\ c' = IF Expired(c) THEN DoneC(FALSE, <<>>)
            ELSE Mmap_try_dequeue_begin(c)
    /\ UNCHANGED <<config, queue, p, nextVal, enqueued, dequeued>>

\* Source::dequeue(T*, count, timeout) called:
\* if (count == 0) return 0; deadline = now() + timeout; total_dequeued = 0;
Mmap_dequeue_bulk_call(n, timeout) ==
    /\ backend = "MmapSPSC" /\ MayCallC
    /\ LET q == [IdleC EXCEPT !.call = "dequeue_bulk", !.n = n,
                              !.out = [k \in 1..n |-> Untouched],
                              !.pre = queue]
       IN  c' = IF n = 0 THEN [q EXCEPT !.pc = "done"]
                ELSE [q EXCEPT !.pc = "loop", !.timeout = timeout, !.deadline = timeout,
                              !.armed = TRUE]
    /\ UNCHANGED <<config, queue, p, nextVal, enqueued, dequeued>>

\* One pass of while (total_dequeued < count), up to the entry of
\* try_dequeue: if (now() >= deadline) return total_dequeued;
\* try_dequeue(data + total_dequeued, count - total_dequeued)
Mmap_dequeue_bulk_loop ==
    /\ backend = "MmapSPSC" /\ c.pc = "loop"
    /\ c' = IF Expired(c)
            THEN DoneC(c.total_dequeued, c.out)
            ELSE Mmap_try_dequeue_bulk_begin(c, c.total_dequeued,
                                             c.n - c.total_dequeued)
    /\ UNCHANGED <<config, queue, p, nextVal, enqueued, dequeued>>

(* ------------------------ MutexQueue: helpers -------------------------- *)

\* MutexQueue::size_unlocked
size_unlocked ==
    IF tail_ >= head_ THEN USub(tail_, head_) ELSE USub(Capacity, head_) + tail_

\* free_unlocked that counts every slot of the array as usable.
free_unlocked_all == USub(Capacity, size_unlocked)

\* MutexQueue::free_unlocked
free_unlocked == USub(Capacity - 1, size_unlocked)

\* full_unlocked comparing tail_ + 1 with head_, without the wrap.
full_unlocked_nowrap == tail_ + 1 = head_

\* MutexQueue::full_unlocked
full_unlocked == next(tail_) = head_

\* Mutex_copy_in without the second memcpy.
Mutex_copy_in_first_only(buf, tail, data, base, n) ==
    LET first_segment == IF n < USub(Capacity, tail) THEN n
                         ELSE USub(Capacity, tail)
    IN  [k \in DOMAIN buf |->
            IF k >= tail /\ k < tail + first_segment
            THEN data[base + (k - tail) + 1]
            ELSE buf[k]]

\* The two memcpy calls of a bulk enqueue of n elements of data, from offset
\* base, into the ring buf at index tail: the second copy is made last.
Mutex_copy_in(buf, tail, data, base, n) ==
    LET first_segment == IF n < USub(Capacity, tail) THEN n
                         ELSE USub(Capacity, tail)
        second_segment == USub(n, first_segment)
    IN  [k \in DOMAIN buf |->
            IF k < second_segment THEN data[base + first_segment + k + 1]
            ELSE IF k >= tail /\ k < tail + first_segment
                 THEN data[base + (k - tail) + 1]
            ELSE buf[k]]

\* Mutex_copy_out without the second memcpy.
Mutex_copy_out_first_only(buf, head, out, base, n) ==
    LET first_segment == IF n < USub(Capacity, head) THEN n
                         ELSE USub(Capacity, head)
    IN  [k \in DOMAIN out |->
            IF k > base /\ k <= base + first_segment
            THEN buf[head + (k - base) - 1]
            ELSE out[k]]

\* The two memcpy calls of a bulk dequeue of n elements from the ring buf at
\* index head into the caller's array out, from offset base.
Mutex_copy_out(buf, head, out, base, n) ==
    LET first_segment == IF n < USub(Capacity, head) THEN n
                         ELSE USub(Capacity, head)
        second_segment == USub(n, first_segment)
    IN  [k \in DOMAIN out |->
            IF k > base + first_segment /\ k <= base + first_segment + second_segment
            THEN buf[k - base - first_segment - 1]
            ELSE IF k > base /\ k <= base + first_segment
                 THEN buf[head + (k - base) - 1]
            ELSE out[k]]

(* ------------------------ MutexQueue: producer ------------------------- *)

\* Sink::try_enqueue(const T&) / Sink::try_enqueue(T&&) called.
Mutex_try_enqueue_call(kind) ==
    /\ backend = "MutexQueue" /\ MayCallP
    /\ nextVal <= MaxItems
    /\ p' = [IdleP EXCEPT !.pc = "lock", !.call = kind, !.n = 1,
                          !.data = Fresh(1), !.value = nextVal,
                          !.pre = queue]
    /\ UNCHANGED <<config, queue, c, nextVal, enqueued, dequeued>>

\* Sink::try_enqueue(const T*, count) called: if (count == 0) return 0;
Mutex_try_enqueue_bulk_call(n) ==
    /\ backend = "MutexQueue" /\ MayCallP
    /\ nextVal + n - 1 <= MaxItems
    /\ p' = [IdleP EXCEPT !.pc = IF n = 0 THEN "done" ELSE "lock",
                          !.call = "try_enqueue_bulk", !.n = n,
                          !.data = Fresh(n), !.pre = queue]
    /\ UNCHANGED <<config, queue, c, nextVal, enqueued, dequeued>>

\* Sink::enqueue(const T&, timeout) / Sink::enqueue(T&&, timeout) called.
Mutex_enqueue_call(kind, timeout) ==
    /\ backend = "MutexQueue" /\ MayCallP
    /\ nextVal <= MaxItems
    /\ p' = [IdleP EXCEPT !.pc = "lock", !.call = kind, !.n = 1,
                          !.data = Fresh(1), !.value = nextVal,
                          !.timeout = timeout, !.pre = queue]
    /\ UNCHANGED <<config, queue, c, nextVal, enqueued, dequeued>>

\* Sink::enqueue(const T*, count, timeout) called:
\* if (count == 0) return true; deadline = now() + timeout; total = 0;
Mutex_enqueue_bulk_call(n, timeout) ==
    /\ backend = "MutexQueue" /\ MayCallP
    /\ nextVal + n - 1 <= MaxItems
    /\ LET q == [IdleP EXCEPT !.call = "enqueue_bulk", !.n = n,
                              !.data = Fresh(n), !.pre = queue]
       IN  p' = IF n = 0 THEN [q EXCEPT !.pc = "done", !.result = TRUE]
                ELSE [q EXCEPT !.pc = "lock", !.timeout = timeout,
                               !.deadline = timeout, !.armed = TRUE]
    /\ UNCHANGED <<config, queue, c, nextVal, enqueued, dequeued>>

\* std::lock_guard lk(mtx_) / std::unique_lock lk(mtx_) acquires the mutex.
\* The timed single-element enqueue computes its deadline right after it.
Mutex_producer_lock ==
    /\ backend = "MutexQueue" /\ p.pc = "lock"
    /\ mtx_ = "free"
    /\ mtx_' = "producer"
    /\ p' = IF p.call \in {"enqueue", "enqueue_move"}
            THEN [p EXCEPT !.pc = "locked", !.deadline = p.timeout,
                           !.armed = TRUE]
            ELSE [p EXCEPT !.pc = "locked"]
    /\ UNCHANGED <<setup, queue, c, nextVal, enqueued, dequeued>>

\* try_enqueue(const T&) / try_enqueue(T&&) under the lock:
\* if (full_unlocked()) return false; buffer_[tail_] = value;
\* tail_ = next(tail_); and the lock is released.  T is trivially
\* copyable: the move assignment copies, the payload keeps its bytes.
Mutex_try_enqueue_locked ==
    /\ backend = "MutexQueue" /\ p.pc = "locked" /\ mtx_ = "producer"
    /\ p.call \in {"try_enqueue", "try_enqueue_move"}
    /\ mtx_' = "free"
    /\ IF full_unlocked
       THEN /\ p' = DoneP(FALSE)
            /\ UNCHANGED <<queue, enqueued>>
       ELSE /\ buffer_' = Store(buffer_, tail_, p.value)
            /\ tail_' = next(tail_)
            /\ enqueued' = enqueued \o p.data
            /\ p' = [p EXCEPT !.pc = "notify", !.result = TRUE,
                              !.moves = IF Rvalue(p) THEN @ + 1 ELSE @]
            /\ UNCHANGED head_
    /\ UNCHANGED <<setup, c, nextVal, dequeued>>

\* try_enqueue(const T*, count) under the lock.
Mutex_try_enqueue_bulk_locked ==
    /\ backend = "MutexQueue" /\ p.pc = "locked" /\ mtx_ = "producer"
    /\ p.call = "try_enqueue_bulk"
    /\ mtx_' = "free"
    /\ LET free == free_unlocked
           n == IF free < p.n THEN free ELSE p.n
       IN  IF n = 0
           THEN /\ p' = DoneP(0)
                /\ UNCHANGED <<queue, enqueued>>
           ELSE /\ buffer_' = Mutex_copy_in(buffer_, tail_, p.data, 0, n)
                /\ tail_' = (tail_ + n) % Capacity
                /\ enqueued' = enqueued \o SubSeq(p.data, 1, n)
                /\ p' = [p EXCEPT !.pc = "notify", !.result = n]
                /\ UNCHANGED head_
    /\ UNCHANGED <<setup, c, nextVal, dequeued>>

\* Mutex_enqueue_locked with a wait that keeps the mutex locked.
Mutex_enqueue_locked_holding ==
    /\ backend = "MutexQueue" /\ p.pc = "locked" /\ mtx_ = "producer"
    /\ p.call \in {"enqueue", "enqueue_move"}
    /\ IF full_unlocked
       THEN /\ p' = [p EXCEPT !.pc = "wait", !.retry = TRUE]
            /\ UNCHANGED <<mtx_, queue, enqueued>>
       ELSE /\ buffer_' = Store(buffer_, tail_, p.value)
            /\ tail_' = next(tail_)
            /\ enqueued' = enqueued \o p.data
            /\ mtx_' = "free"
            /\ p' = [p EXCEPT !.pc = "notify", !.result = TRUE,
                              !.moves = IF Rvalue(p) THEN @ + 1 ELSE @]
            /\ UNCHANGED head_
    /\ UNCHANGED <<setup, c, nextVal, dequeued>>

\* enqueue(const T&, timeout) / enqueue(T&&, timeout) under the lock:
\* while (full_unlocked()) cv_not_full_.wait_until(lk, deadline) releases the
\* mutex and blocks; otherwise the element is stored and the lock released.
Mutex_enqueue_locked ==
    /\ backend = "MutexQueue" /\ p.pc = "locked" /\ mtx_ = "producer"
    /\ p.call \in {"enqueue", "enqueue_move"}
    /\ mtx_' = "free"
    /\ IF full_unlocked
       THEN /\ p' = [p EXCEPT !.pc = "wait", !.retry = TRUE]
            /\ UNCHANGED <<queue, enqueued>>
       ELSE /\ buffer_' = Store(buffer_, tail_, p.value)
            /\ tail_' = next(tail_)
            /\ enqueued' = enqueued \o p.data
            /\ p' = [p EXCEPT !.pc = "notify", !.result = TRUE,
                              !.moves = IF Rvalue(p) THEN @ + 1 ELSE @]
            /\ UNCHANGED head_
    /\ UNCHANGED <<setup, c, nextVal, dequeued>>

\* enqueue(const T*, count, timeout) under the lock: while
\* (free_unlocked() == 0) wait_until releases the mutex and blocks; otherwise
\* `can` elements are copied, total += can, and the lock is released.
Mutex_enqueue_bulk_locked ==
    /\ backend = "MutexQueue" /\ p.pc = "locked" /\ mtx_ = "producer"
    /\ p.call = "enqueue_bulk"
    /\ mtx_' = "free"
    /\ IF free_unlocked = 0
       THEN /\ p' = [p EXCEPT !.pc = "wait"]
            /\ UNCHANGED <<queue, enqueued>>
       ELSE LET remaining == USub(p.n, p.total_enqueued)
                can == IF free_unlocked < remaining THEN free_unlocked
                       ELSE remaining
            IN  /\ buffer_' = Mutex_copy_in(buffer_, tail_, p.data,
                                            p.total_enqueued, can)
                /\ tail_' = (tail_ + can) % Capacity
                /\ enqueued' = enqueued \o SubSeq(p.data, p.total_enqueued + 1,
                                                  p.total_enqueued + can)
                /\ p' = [p EXCEPT !.pc = "notify",
                                  !.total_enqueued = @ + can]
                /\ UNCHANGED head_
    /\ UNCHANGED <<setup, c, nextVal, dequeued>>

\* cv_not_full_.wait_until: the deadline is reached while the producer is
\* blocked.
Mutex_producer_wait_timeout ==
    /\ backend = "MutexQueue" /\ p.pc = "wait" /\ Expired(p)
    /\ p' = [p EXCEPT !.pc = "wake"]
    /\ UNCHANGED <<config, queue, c, nextVal, enqueued, dequeued>>

\* cv_not_full_.wait_until: a spurious wake-up, which the standard permits.
Mutex_producer_wait_spurious ==
    /\ backend = "MutexQueue" /\ p.pc = "wait" /\ ~Expired(p)
    /\ p' = [p EXCEPT !.pc = "wake"]
    /\ UNCHANGED <<config, queue, c, nextVal, enqueued, dequeued>>

\* cv_not_full_.wait_until returns: the mutex is re-acquired and the status
\* is timeout exactly when the deadline has passed; on timeout the function
\* returns false and the lock is released again.
Mutex_producer_relock ==
    /\ backend = "MutexQueue" /\ p.pc = "wake"
    /\ mtx_ = "free"
    /\ IF Expired(p)
       THEN /\ p' = DoneP(FALSE)
            /\ UNCHANGED mtx_
       ELSE /\ p' = [p EXCEPT !.pc = "locked"]
            /\ mtx_' = "producer"
    /\ UNCHANGED <<setup, queue, c, nextVal, enqueued, dequeued>>

\* Mutex_enqueue_notify without the notify_one(): the blocked consumer is
\* not woken.
Mutex_enqueue_notify_lost ==
    /\ backend = "MutexQueue" /\ p.pc = "notify"
    /\ p' = IF p.call = "enqueue_bulk"
            THEN IF p.total_enqueued < p.n
                 THEN [p EXCEPT !.pc = "lock"]
                 ELSE DoneP(TRUE)
            ELSE DoneP(p.result)
    /\ UNCHANGED <<config, queue, c, nextVal, enqueued, dequeued>>

\* cv_not_empty_.notify_one() after the lock is released: a consumer blocked
\* in cv_not_empty_.wait_until is woken.  Then the function returns, or the
\* timed bulk enqueue goes round its loop.
Mutex_enqueue_notify ==
    /\ backend = "MutexQueue" /\ p.pc = "notify"
    /\ c' = IF c.pc = "wait" THEN [c EXCEPT !.pc = "wake"] ELSE c
    /\ p' = IF p.call = "enqueue_bulk"
            THEN IF p.total_enqueued < p.n
                 THEN [p EXCEPT !.pc = "lock"]
                 ELSE DoneP(TRUE)
            ELSE DoneP(p.result)
    /\ UNCHANGED <<config, queue, nextVal, enqueued, dequeued>>

(* ------------------------ MutexQueue: consumer ------------------------- *)

\* Source::try_dequeue() called.
Mutex_try_dequeue_call ==
    /\ backend = "MutexQueue" /\ MayCallC
    /\ c' = [IdleC EXCEPT !.pc = "lock", !.call = "try_dequeue", !.n = 1,
                          !.pre = queue]
    /\ UNCHANGED <<config, queue, p, nextVal, enqueued, dequeued>>

\* Source::try_dequeue(T*, count) called: if (count == 0) return 0;
Mutex_try_dequeue_bulk_call(n) ==
    /\ backend = "MutexQueue" /\ MayCallC
    /\ c' = [IdleC EXCEPT !.pc = IF n = 0 THEN "done" ELSE "lock",
                          !.call = "try_dequeue_bulk", !.n = n,
                          !.out = [k \in 1..n |-> Untouched],
                          !.pre = queue]
    /\ UNCHANGED <<config, queue, p, nextVal, enqueued, dequeued>>

\* Source::dequeue(timeout) called.
Mutex_dequeue_call(timeout) ==
    /\ backend = "MutexQueue" /\ MayCallC
    /\ c' = [IdleC EXCEPT !.pc = "lock", !.call = "dequeue", !.n = 1,
                          !.timeout = timeout, !.pre = queue]
    /\ UNCHANGED <<config, queue, p, nextVal, enqueued, dequeued>>

\* Source::dequeue(T*, count, timeout) called:
\* if (count == 0) return 0; deadline = now() + timeout; total = 0;
Mutex_dequeue_bulk_call(n, timeout) ==
    /\ backend = "MutexQueue" /\ MayCallC
    /\ LET q == [IdleC EXCEPT !.call = "dequeue_bulk", !.n = n,
                              !.out = [k \in 1..n |-> Untouched],
                              !.pre = queue]
       IN  c' = IF n = 0 THEN [q EXCEPT !.pc = "done"]
                ELSE [q EXCEPT !.pc = "lock", !.timeout = timeout,
                               !.deadline = timeout, !.armed = TRUE]
    /\ UNCHANGED <<config, queue, p, nextVal, enqueued, dequeued>>

\* std::lock_guard lk(mtx_) / std::unique_lock lk(mtx_) acquires the mutex.
\* The timed single-element dequeue computes its deadline right after it.
Mutex_consumer_lock ==
    /\ backend = "MutexQueue" /\ c.pc = "lock"
    /\ mtx_ = "free"
    /\ mtx_' = "consumer"
    /\ c' = IF c.call = "dequeue"
            THEN [c EXCEPT !.pc = "locked", !.deadline = c.timeout,
                           !.armed = TRUE]
            ELSE [c EXCEPT !.pc = "locked"]
    /\ UNCHANGED <<setup, queue, p, nextVal, enqueued, dequeued>>

\* try_dequeue() under the lock: if (head_ == tail_) return std::nullopt;
\* value = std::move(buffer_[head_]); head_ = next(head_); and the lock is
\* released.  T is trivially copyable: the slot keeps its bytes.
Mutex_try_dequeue_locked ==
    /\ backend = "MutexQueue" /\ c.pc = "locked" /\ mtx_ = "consumer"
    /\ c.call = "try_dequeue"
    /\ mtx_' = "free"
    /\ IF head_ = tail_
       THEN /\ c' = DoneC(FALSE, <<>>)
            /\ UNCHANGED <<queue, dequeued>>
       ELSE /\ head_' = next(head_)
            /\ dequeued' = Append(dequeued, buffer_[head_])
            /\ c' = [c EXCEPT !.pc = "notify", !.result = TRUE,
                              !.out = <<buffer_[head_]>>]
            /\ UNCHANGED <<tail_, buffer_>>
    /\ UNCHANGED <<setup, p, nextVal, enqueued>>

\* try_dequeue(T*, count) under the lock.
Mutex_try_dequeue_bulk_locked ==
    /\ backend = "MutexQueue" /\ c.pc = "locked" /\ mtx_ = "consumer"
    /\ c.call = "try_dequeue_bulk"
    /\ mtx_' = "free"
    /\ LET avail == size_unlocked
           n == IF avail < c.n THEN avail ELSE c.n
           o == Mutex_copy_out(buffer_, head_, c.out, 0, n)
       IN  IF n = 0
           THEN /\ c' = DoneC(0, c.out)
                /\ UNCHANGED <<queue, dequeued>>
           ELSE /\ head_' = (head_ + n) % Capacity
                /\ dequeued' = dequeued \o SubSeq(o, 1, n)
                /\ c' = [c EXCEPT !.pc = "notify", !.result = n, !.out = o]
                /\ UNCHANGED <<tail_, buffer_>>
    /\ UNCHANGED <<setup, p, nextVal, enqueued>>

\* Mutex_dequeue_locked returning the element without going on to
\* cv_not_full_.notify_one().
Mutex_dequeue_locked_silent ==
    /\ backend = "MutexQueue" /\ c.pc = "locked" /\ mtx_ = "consumer"
    /\ c.call = "dequeue"
    /\ mtx_' = "free"
    /\ IF head_ = tail_
       THEN /\ c' = [c EXCEPT !.pc = "wait"]
            /\ UNCHANGED <<queue, dequeued>>
       ELSE /\ head_' = next(head_)
            /\ dequeued' = Append(dequeued, buffer_[head_])
            /\ c' = DoneC(TRUE, <<buffer_[head_]>>)
            /\ UNCHANGED <<tail_, buffer_>>
    /\ UNCHANGED <<setup, p, nextVal, enqueued>>

\* dequeue(timeout) under the lock: while (head_ == tail_)
\* cv_not_empty_.wait_until(lk, deadline) releases the mutex and blocks;
\* otherwise the element is taken and the lock released.
Mutex_dequeue_locked ==
    /\ backend = "MutexQueue" /\ c.pc = "locked" /\ mtx_ = "consumer"
    /\ c.call = "dequeue"
    /\ mtx_' = "free"
    /\ IF head_ = tail_
       THEN /\ c' = [c EXCEPT !.pc = "wait"]
            /\ UNCHANGED <<queue, dequeued>>
       ELSE /\ head_' = next(head_)
            /\ dequeued' = Append(dequeued, buffer_[head_])
            /\ c' = [c EXCEPT !.pc = "notify", !.result = TRUE,
                              !.out = <<buffer_[head_]>>]
            /\ UNCHANGED <<tail_, buffer_>>
    /\ UNCHANGED <<setup, p, nextVal, enqueued>>

\* dequeue(T*, count, timeout) under the lock: while (size_unlocked() == 0)
\* wait_until releases the mutex and blocks; otherwise `can` elements are
\* copied out, total += can, and the lock is released.
Mutex_dequeue_bulk_locked ==
    /\ backend = "MutexQueue" /\ c.pc = "locked" /\ mtx_ = "consumer"
    /\ c.call = "dequeue_bulk"
    /\ mtx_' = "free"
    /\ IF size_unlocked = 0
       THEN /\ c' = [c EXCEPT !.pc = "wait"]
            /\ UNCHANGED <<queue, dequeued>>
       ELSE LET remaining == USub(c.n, c.total_dequeued)
                can == IF size_unlocked < remaining THEN size_unlocked
                       ELSE remaining
                o == Mutex_copy_out(buffer_, head_, c.out, c.total_dequeued, can)
            IN  /\ head_' = (head_ + can) % Capacity
                /\ dequeued' = dequeued \o SubSeq(o, c.total_dequeued + 1,
                                                  c.total_dequeued + can)
                /\ c' = [c EXCEPT !.pc = "notify", !.out = o,
                                  !.total_dequeued = @ + can]
                /\ UNCHANGED <<tail_, buffer_>>
    /\ UNCHANGED <<setup, p, nextVal, enqueued>>

\* cv_not_empty_.wait without a deadline: the consumer stays blocked until
\* the queue holds an element.
Mutex_consumer_wait_untimed ==
    /\ backend = "MutexQueue" /\ c.pc = "wait" /\ Expired(c) /\ ~empty
    /\ c' = [c EXCEPT !.pc = "wake"]
    /\ UNCHANGED <<config, queue, p, nextVal, enqueued, dequeued>>

\* cv_not_empty_.wait_until: the deadline is reached while the consumer is
\* blocked.
Mutex_consumer_wait_timeout ==
    /\ backend = "MutexQueue" /\ c.pc = "wait" /\ Expired(c)
    /\ c' = [c EXCEPT !.pc = "wake"]
    /\ UNCHANGED <<config, queue, p, nextVal, enqueued, dequeued>>

\* cv_not_empty_.wait_until: a spurious wake-up, which the standard permits.
Mutex_consumer_wait_spurious ==
    /\ backend = "MutexQueue" /\ c.pc = "wait" /\ ~Expired(c)
    /\ c' = [c EXCEPT !.pc = "wake"]
    /\ UNCHANGED <<config, queue, p, nextVal, enqueued, dequeued>>

\* cv_not_empty_.wait_until returns: the mutex is re-acquired and the status
\* is timeout exactly when the deadline has passed; on timeout the function
\* returns (std::nullopt, or the total so far) and the lock is released again.
Mutex_consumer_relock ==
    /\ backend = "MutexQueue" /\ c.pc = "wake"
    /\ mtx_ = "free"
    /\ IF Expired(c)
       THEN /\ c' = IF c.call = "dequeue" THEN DoneC(FALSE, <<>>)
                    ELSE DoneC(c.total_dequeued, c.out)
            /\ UNCHANGED mtx_
       ELSE /\ c' = [c EXCEPT !.pc = "locked"]
            /\ mtx_' = "consumer"
    /\ UNCHANGED <<setup, queue, p, nextVal, enqueued, dequeued>>

\* Mutex_dequeue_notify without the notify_one(): the blocked producer is
\* not woken.
Mutex_dequeue_notify_lost ==
    /\ backend = "MutexQueue" /\ c.pc = "notify"
    /\ c' = IF c.call = "dequeue_bulk"
            THEN IF c.total_dequeued < c.n
                 THEN [c EXCEPT !.pc = "lock"]
                 ELSE DoneC(c.total_dequeued, c.out)
            ELSE DoneC(c.result, c.out)
    /\ UNCHANGED <<config, queue, p, nextVal, enqueued, dequeued>>

\* cv_not_full_.notify_one() after the lock is released: a producer blocked
\* in cv_not_full_.wait_until is woken.  Then the function returns, or the
\* timed bulk dequeue goes round its loop.
Mutex_dequeue_notify ==
    /\ backend = "MutexQueue" /\ c.pc = "notify"
    /\ p' = IF p.pc = "wait" THEN [p EXCEPT !.pc = "wake"] ELSE p
    /\ c' = IF c.call = "dequeue_bulk"
            THEN IF c.total_dequeued < c.n
                 THEN [c EXCEPT !.pc = "lock"]
                 ELSE DoneC(c.total_dequeued, c.out)
            ELSE DoneC(c.result, c.out)
    /\ UNCHANGED <<config, queue, nextVal, enqueued, dequeued>>

(* ------------------------------ callers ------------------------------- *)

\* One tick passes for the timed call of thread record q; other is the
\* index the other thread owns.
Elapse(q, other) ==
    [q EXCEPT !.deadline = @ - 1,
              !.at_deadline = IF q.deadline = 1 THEN <<other>> ELSE @]

\* std::chrono::steady_clock advances by one tick.  Time is kept relative:
\* the `deadline` of a thread holds deadline - now(), so a tick lowers the
\* deadline of every timed call in progress; now() >= deadline is
\* deadline - now() <= 0.  A tick that no timed call can observe is left out.
Tick ==
    /\ (Timed(p) /\ ~Expired(p)) \/ (Timed(c) /\ ~Expired(c))
    /\ p' = IF Timed(p) /\ ~Expired(p) THEN Elapse(p, head_) ELSE p
    /\ c' = IF Timed(c) /\ ~Expired(c) THEN Elapse(c, tail_) ELSE c
    /\ UNCHANGED <<config, queue, nextVal, enqueued, dequeued>>

\* The caller takes the result and the elements.
ConsumerReturn ==
    /\ c.pc = "done"
    /\ c' = IdleC
    /\ UNCHANGED <<config, queue, p, nextVal, enqueued, dequeued>>

(* ------------- size() and empty() of the lock-free back-ends ----------- *)

\* SPSC::size / SPSC::empty and MmapSPSC::size / MmapSPSC::empty, called
\* through a handle by the thread that owns it.  size() loads head_ and then
\* tail_, in two statements; the operands of the == of empty() are
\* evaluated in either order.
Orders(fn) == IF fn = "size" THEN {"head"} ELSE {"head", "tail"}

\* size() or empty() entered by the thread of record idle.
Observe_begin(idle, fn, order) ==
    [idle EXCEPT !.pc = "load_first", !.call = fn, !.order = order,
                 !.pre = queue]

\* the first acquire load
Observe_first(q) ==
    [q EXCEPT !.pc = "load_second",
              !.current_head = IF q.order = "head" THEN head_ ELSE @,
              !.current_tail = IF q.order = "tail" THEN tail_ ELSE @,
              !.seen = Append(@, <<head_, tail_>>)]

\* Observe_second computing size() as tail - head, without the wrap.
Observe_second_nowrap(q) ==
    LET head == IF q.order = "head" THEN q.current_head ELSE head_
        tail == IF q.order = "tail" THEN q.current_tail ELSE tail_
    IN  [q EXCEPT !.pc = "observed",
                  !.current_head = head, !.current_tail = tail,
                  !.result = IF q.call = "size" THEN tail - head
                             ELSE head = tail,
                  !.seen = Append(@, <<head_, tail_>>)]

\* the second acquire load, and the value returned:
\*   return (tail >= head) ? (tail - head) : (Capacity - head + tail);
\*   return head_.load(acquire) == tail_.load(acquire);
Observe_second(q) ==
    LET head == IF q.order = "head" THEN q.current_head ELSE head_
        tail == IF q.order = "tail" THEN q.current_tail ELSE tail_
    IN  [q EXCEPT !.pc = "observed",
                  !.current_head = head, !.current_tail = tail,
                  !.result = IF q.call = "size" THEN size_of(head, tail)
                             ELSE head = tail,
                  !.seen = Append(@, <<head_, tail_>>)]

\* Sink::size() / Sink::empty() called on the producer thread.
Sink_observe_call ==
    /\ LockFree /\ MayCallP
    /\ \E fn \in {"size", "empty"} : \E order \in Orders(fn) :
           p' = Observe_begin(IdleP, fn, order)
    /\ UNCHANGED <<config, queue, c, nextVal, enqueued, dequeued>>

Sink_observe_first ==
    /\ LockFree /\ p.pc = "load_first"
    /\ p' = Observe_first(p)
    /\ UNCHANGED <<config, queue, c, nextVal, enqueued, dequeued>>

Sink_observe_second ==
    /\ LockFree /\ p.pc = "load_second"
    /\ p' = Observe_second(p)
    /\ UNCHANGED <<config, queue, c, nextVal, enqueued, dequeued>>

\* The caller takes the answer.
Sink_observe_return ==
    /\ p.pc = "observed"
    /\ p' = IdleP
    /\ UNCHANGED <<config, queue, c, nextVal, enqueued, dequeued>>

\* Source::size() / Source::empty() called on the consumer thread.
Source_observe_call ==
    /\ LockFree /\ MayCallC
    /\ \E fn \in {"size", "empty"} : \E order \in Orders(fn) :
           c' = Observe_begin(IdleC, fn, order)
    /\ UNCHANGED <<config, queue, p, nextVal, enqueued, dequeued>>

Source_observe_first ==
    /\ LockFree /\ c.pc = "load_first"
    /\ c' = Observe_first(c)
    /\ UNCHANGED <<config, queue, p, nextVal, enqueued, dequeued>>

Source_observe_second ==
    /\ LockFree /\ c.pc = "load_second"
    /\ c' = Observe_second(c)
    /\ UNCHANGED <<config, queue, p, nextVal, enqueued, dequeued>>

\* The caller takes the answer.
Source_observe_return ==
    /\ c.pc = "observed"
    /\ c' = IdleC
    /\ UNCHANGED <<config, queue, p, nextVal, enqueued, dequeued>>

(* ----------------- size() and empty() of MutexQueue -------------------- *)

\* Sink::empty() / Sink::size() called on the producer thread: they forward
\* to MutexQueue::empty / MutexQueue::size, which begin with
\* std::scoped_lock lk(mtx_) (Mutex_producer_lock).
Mutex_sink_observe_call ==
    /\ backend = "MutexQueue" /\ MayCallP
    /\ \E fn \in {"size", "empty"} :
           p' = [IdleP EXCEPT !.pc = "lock", !.call = fn, !.pre = queue]
    /\ UNCHANGED <<config, queue, c, nextVal, enqueued, dequeued>>

\* Mutex_sink_observe_locked reading the indices without the scoped_lock.
Mutex_sink_observe_unlocked ==
    /\ backend = "MutexQueue" /\ p.pc \in {"lock", "locked"}
    /\ p.call \in {"size", "empty"}
    /\ mtx_' = IF p.pc = "locked" THEN "free" ELSE mtx_
    /\ p' = [p EXCEPT !.pc = "observed",
                      !.result = IF p.call = "size" THEN size_unlocked
                                 ELSE head_ = tail_,
                      !.seen = Append(@, <<head_, tail_>>)]
    /\ UNCHANGED <<setup, queue, c, nextVal, enqueued, dequeued>>

\* return head_ == tail_;  /  return size_unlocked();  under the lock, which
\* the destructor of lk releases.
Mutex_sink_observe_locked ==
    /\ backend = "MutexQueue" /\ p.pc = "locked" /\ mtx_ = "producer"
    /\ p.call \in {"size", "empty"}
    /\ mtx_' = "free"
    /\ p' = [p EXCEPT !.pc = "observed",
                      !.result = IF p.call = "size" THEN size_unlocked
                                 ELSE head_ = tail_,
                      !.seen = Append(@, <<head_, tail_>>)]
    /\ UNCHANGED <<setup, queue, c, nextVal, enqueued, dequeued>>

\* Source::empty() / Source::size() called on the consumer thread.
Mutex_source_observe_call ==
    /\ backend = "MutexQueue" /\ MayCallC
    /\ \E fn \in {"size", "empty"} :
           c' = [IdleC EXCEPT !.pc = "lock", !.call = fn, !.pre = queue]
    /\ UNCHANGED <<config, queue, p, nextVal, enqueued, dequeued>>

Mutex_source_observe_locked ==
    /\ backend = "MutexQueue" /\ c.pc = "locked" /\ mtx_ = "consumer"
    /\ c.call \in {"size", "empty"}
    /\ mtx_' = "free"
    /\ c' = [c EXCEPT !.pc = "observed",
                      !.result = IF c.call = "size" THEN size_unlocked
                                 ELSE head_ = tail_,
                      !.seen = Append(@, <<head_, tail_>>)]
    /\ UNCHANGED <<setup, queue, p, nextVal, enqueued, dequeued>>

(* --------------------------- specification ----------------------------- *)

(* ------------------- storage of the double-mapped ring ----------------- *)

\* mem is a record:
\*   step          where MmapSPSC::initialize_mmap stands ("memfd",
\*                 "ftruncate", "reserve", "map_first", "map_second"), or
\*                 "ready" after it, "failed" after it threw, "released"
\*                 after cleanup_mmap / the destruction of the array
\*   failed_at     the step at which initialize_mmap threw, or "none"
\*   elem_size     sizeof(T)
\*   mmap_size     the local mmap_size / the member mmap_size_
\*   fd_open       the descriptor memfd_create returned is open
\*   reserved      the 2 * mmap_size bytes at addr are reserved
\*   first_mapped, second_mapped   the two MAP_FIXED mappings exist
\*   torn          slot index -> number of destructor calls made on the
\*                 slot's element when the storage was torn down

\* std::size_t mmap_size = buffer_size; rounded up to the page size
RoundUp(buffer_size) ==
    IF buffer_size % PageSize # 0
    THEN ((buffer_size \div PageSize) + 1) * PageSize
    ELSE buffer_size

\* The storage before anything is acquired, for elements of es bytes.
NoStorage(es) ==
    [step |-> "ready", failed_at |-> "none", elem_size |-> es, mmap_size |-> RoundUp(Capacity * es),
     fd_open |-> FALSE, reserved |-> FALSE,
     first_mapped |-> FALSE, second_mapped |-> FALSE,
     torn |-> [k \in 0..(Capacity - 1) |-> 0]]

\* The storage m after initialize_mmap has run to its end.
Mapped(m) ==
    [m EXCEPT !.step = "ready", !.fd_open = TRUE, !.reserved = TRUE,
              !.first_mapped = TRUE, !.second_mapped = TRUE]

\* close(fd_)
Close(m) == [m EXCEPT !.fd_open = FALSE]

\* munmap(addr, 2 * mmap_size): the reservation and the mappings made in
\* it are gone.
Munmap(m) ==
    [m EXCEPT !.reserved = FALSE, !.first_mapped = FALSE,
              !.second_mapped = FALSE]

\* throw std::runtime_error(...) out of the constructor
Throw(m) == [m EXCEPT !.step = "failed", !.failed_at = m.step]

\* The byte of the memory object that byte b of the region at addr shows:
\* the object is mapped at offsets 0 and mmap_size of the region.
Backing(b) == IF b < mem.mmap_size THEN b ELSE b - mem.mmap_size

\* The byte of the memory object at which slot buffer_[idx] begins.
SlotStorage(idx) == Backing(idx * mem.elem_size)

(* ------------------------- Sink and Source ----------------------------- *)

\* owner is a record:
\*   sink, source  "none" before the factory returned, "held" while the
\*                 handle whose queue_ points to the queue exists,
\*                 "dropped" after that handle was destroyed
\*   shells        moved-from handles (queue_ is null) that still exist
\*   moves         moves of a handle made so far
\*   use_count     the use count of the shared_ptr control block
\*   queue         "none", "alive", "destroyed": the queue object
\*   dtor_runs     how often the destructor of the queue has run
\*   drops         the handles destroyed so far, in order

\* Before the factory returned.
NoOwner ==
    [sink |-> "none", source |-> "none", shells |-> 0, moves |-> 0,
     use_count |-> 0, queue |-> "none", dtor_runs |-> 0, drops |-> <<>>]

\* return { Sink(queue), Source(queue) }: each handle holds one copy of the
\* shared_ptr; the local queue and the constructor arguments are gone.
Shared ==
    [NoOwner EXCEPT !.sink = "held", !.source = "held", !.use_count = 2,
                    !.queue = "alive"]

\* ~shared_ptr of a handle that holds the queue, on the ownership record o:
\* the use count drops, and the queue is deleted when it reaches zero.
Reset(o) ==
    IF o.use_count = 1
    THEN [o EXCEPT !.use_count = 0, !.queue = "destroyed",
                   !.dtor_runs = @ + 1]
    ELSE [o EXCEPT !.use_count = @ - 1]

\* ~MmapSPSC() { cleanup_mmap(); } and the implicit ~MutexQueue(): the
\* storage after the destructor of the queue.  cleanup_mmap unmaps the
\* region and closes the descriptor and calls no destructor of T; the
\* std::array of MutexQueue destroys each of its Capacity elements.
Destructed(m) ==
    IF backend = "MmapSPSC"
    THEN [Close(Munmap(m)) EXCEPT !.step = "released"]
    ELSE [m EXCEPT !.step = "released",
                   !.torn = [k \in DOMAIN m.torn |-> m.torn[k] + 1]]

\* The storage after ownership record o was replaced by o2.
AfterDrop(o, o2) ==
    IF o.queue = "alive" /\ o2.queue = "destroyed" THEN Destructed(mem)
    ELSE mem

\* The thread that holds both handles is between two calls.
BetweenCalls == p.pc = "idle" /\ c.pc = "idle"

\* Sink(Sink&&) = default: a new Sink takes over queue_, the old one is
\* left holding a null pointer.
Sink_move ==
    /\ SinkHeld /\ BetweenCalls /\ owner.moves < MaxMoves
    /\ owner' = [owner EXCEPT !.shells = @ + 1, !.moves = @ + 1]
    /\ UNCHANGED <<backend, Capacity, harness, mem, mtx_, queue, p, c,
                   nextVal, enqueued, dequeued>>

\* Source(Source&&) = default
Source_move ==
    /\ SourceHeld /\ BetweenCalls /\ owner.moves < MaxMoves
    /\ owner' = [owner EXCEPT !.shells = @ + 1, !.moves = @ + 1]
    /\ UNCHANGED <<backend, Capacity, harness, mem, mtx_, queue, p, c,
                   nextVal, enqueued, dequeued>>

\* A moved-from handle is destroyed with the pointer it holds.
Shell_drop_release ==
    /\ owner.shells > 0
    /\ LET o == Reset([owner EXCEPT !.shells = @ - 1])
       IN  /\ owner' = o
           /\ mem' = AfterDrop(owner, o)
    /\ UNCHANGED <<backend, Capacity, harness, mtx_, queue, p, c,
                   nextVal, enqueued, dequeued>>

\* A moved-from handle is destroyed: its queue_ is null, nothing is released.
Shell_drop ==
    /\ owner.shells > 0
    /\ owner' = [owner EXCEPT !.shells = @ - 1]
    /\ UNCHANGED <<backend, Capacity, harness, mem, mtx_, queue, p, c,
                   nextVal, enqueued, dequeued>>

\* The Sink that holds the queue is destroyed.
Sink_drop ==
    /\ SinkHeld /\ BetweenCalls
    /\ LET o == Reset([owner EXCEPT !.sink = "dropped",
                                    !.drops = Append(@, "sink")])
       IN  /\ owner' = o
           /\ mem' = AfterDrop(owner, o)
    /\ UNCHANGED <<backend, Capacity, harness, mtx_, queue, p, c,
                   nextVal, enqueued, dequeued>>

\* The Source that holds the queue is destroyed.
Source_drop ==
    /\ SourceHeld /\ BetweenCalls
    /\ LET o == Reset([owner EXCEPT !.source = "dropped",
                                    !.drops = Append(@, "source")])
       IN  /\ owner' = o
           /\ mem' = AfterDrop(owner, o)
    /\ UNCHANGED <<backend, Capacity, harness, mtx_, queue, p, c,
                   nextVal, enqueued, dequeued>>

(* ------------------- MmapSPSC::initialize_mmap ------------------------- *)

\* what no step of initialize_mmap changes
constructing == <<backend, Capacity, harness, owner, mtx_, queue, p, c,
                  nextVal, enqueued, dequeued>>

\* fd_ = memfd_create("mmap_spsc_queue", 0); if (fd_ == -1) throw
Mmap_init_memfd ==
    /\ backend = "MmapSPSC" /\ mem.step = "memfd"
    /\ \E ok \in BOOLEAN :
           mem' = IF ok THEN [mem EXCEPT !.fd_open = TRUE,
                                         !.step = "ftruncate"]
                  ELSE Throw(mem)
    /\ UNCHANGED constructing

\* if (ftruncate(fd_, mmap_size) != 0) { close(fd_); throw }
Mmap_init_ftruncate ==
    /\ backend = "MmapSPSC" /\ mem.step = "ftruncate"
    /\ \E ok \in BOOLEAN :
           mem' = IF ok THEN [mem EXCEPT !.step = "reserve"]
                  ELSE Throw(Close(mem))
    /\ UNCHANGED constructing

\* addr = mmap(nullptr, 2 * mmap_size, PROT_NONE, ...);
\* if (addr == MAP_FAILED) { close(fd_); throw }
Mmap_init_reserve ==
    /\ backend = "MmapSPSC" /\ mem.step = "reserve"
    /\ \E ok \in BOOLEAN :
           mem' = IF ok THEN [mem EXCEPT !.reserved = TRUE,
                                         !.step = "map_first"]
                  ELSE Throw(Close(mem))
    /\ UNCHANGED constructing

\* if (mmap(addr, mmap_size, ..., MAP_SHARED | MAP_FIXED, fd_, 0)
\*     == MAP_FAILED) { munmap(addr, 2 * mmap_size); close(fd_); throw }
Mmap_init_map_first ==
    /\ backend = "MmapSPSC" /\ mem.step = "map_first"
    /\ \E ok \in BOOLEAN :
           mem' = IF ok THEN [mem EXCEPT !.first_mapped = TRUE,
                                         !.step = "map_second"]
                  ELSE Throw(Close(Munmap(mem)))
    /\ UNCHANGED constructing

\* The second mapping fails and the descriptor is left open.
Mmap_init_map_second_leak ==
    /\ backend = "MmapSPSC" /\ mem.step = "map_second"
    /\ \E ok \in BOOLEAN :
           /\ mem' = IF ok THEN [mem EXCEPT !.second_mapped = TRUE,
                                            !.step = "ready"]
                     ELSE Throw(Munmap(mem))
           /\ owner' = IF ok THEN Shared ELSE owner
    /\ UNCHANGED <<backend, Capacity, harness, mtx_, queue, p, c,
                   nextVal, enqueued, dequeued>>

\* if (mmap(addr + mmap_size, mmap_size, ..., MAP_SHARED | MAP_FIXED, fd_, 0)
\*     == MAP_FAILED) { munmap(addr, 2 * mmap_size); close(fd_); throw }
\* buffer_ = static_cast<T*>(addr); mmap_size_ = mmap_size;
\* and, the constructor done, create() returns { Sink(queue), Source(queue) }.
Mmap_init_map_second ==
    /\ backend = "MmapSPSC" /\ mem.step = "map_second"
    /\ \E ok \in BOOLEAN :
           /\ mem' = IF ok THEN [mem EXCEPT !.second_mapped = TRUE,
                                            !.step = "ready"]
                     ELSE Throw(Close(Munmap(mem)))
           /\ owner' = IF ok THEN Shared ELSE owner
    /\ UNCHANGED <<backend, Capacity, harness, mtx_, queue, p, c,
                   nextVal, enqueued, dequeued>>

Backends == {"SPSC", "MmapSPSC", "MutexQueue"}

Init ==
    /\ backend \in Backends
    /\ Capacity \in {cap \in 1..MaxCapacity :
                        IF LockFree THEN LockFreeAccepts(cap)
                        ELSE MutexAccepts(cap)}
    /\ harness \in {"one_thread", "two_threads"}
    /\ head_ = 0
    /\ tail_ = 0
    /\ buffer_ = [k \in 0..(Capacity - 1) |->
                     IF backend = "MmapSPSC" THEN Raw ELSE Moved]
    /\ mtx_ = "free"
    /\ p = IdleP
    /\ c = IdleC
    /\ nextVal = 1
    /\ enqueued = <<>>
    /\ dequeued = <<>>
    /\ owner = Shared
    /\ mem = IF backend = "MmapSPSC" THEN Mapped(NoStorage(1)) ELSE NoStorage(1)

\* Calls of the single-element try-operations through the handles.
SingleTryCalls ==
    \/ \E kind \in {"try_enqueue", "try_enqueue_move"} :
           \/ SPSC_try_enqueue_call(kind)
           \/ Mmap_try_enqueue_call(kind)
           \/ Mutex_try_enqueue_call(kind)
    \/ SPSC_try_dequeue_call
    \/ Mmap_try_dequeue_call
    \/ Mutex_try_dequeue_call

\* Calls of the bulk try-operations through the handles.
BulkTryCalls ==
    \/ \E n \in 0..MaxCount :
           \/ SPSC_try_enqueue_bulk_call(n)
           \/ Mmap_try_enqueue_bulk_call(n)
           \/ Mutex_try_enqueue_bulk_call(n)
    \/ \E n \in 0..MaxCount :
           \/ SPSC_try_dequeue_bulk_call(n)
           \/ Mmap_try_dequeue_bulk_call(n)
           \/ Mutex_try_dequeue_bulk_call(n)

\* Calls of the single-element timed operations through the handles.
SingleTimedCalls ==
    \/ \E kind \in {"enqueue", "enqueue_move"}, timeout \in 0..MaxTimeout :
           \/ SPSC_enqueue_call(kind, timeout)
           \/ Mmap_enqueue_call(kind, timeout)
           \/ Mutex_enqueue_call(kind, timeout)
    \/ \E timeout \in 0..MaxTimeout :
           \/ SPSC_dequeue_call(timeout)
           \/ Mmap_dequeue_call(timeout)
           \/ Mutex_dequeue_call(timeout)

\* Calls of the bulk timed operations through the handles.
BulkTimedCalls ==
    \/ \E n \in 0..MaxCount, timeout \in 0..MaxTimeout :
           \/ SPSC_enqueue_bulk_call(n, timeout)
           \/ Mmap_enqueue_bulk_call(n, timeout)
           \/ Mutex_enqueue_bulk_call(n, timeout)
    \/ \E n \in 0..MaxCount, timeout \in 0..MaxTimeout :
           \/ SPSC_dequeue_bulk_call(n, timeout)
           \/ Mmap_dequeue_bulk_call(n, timeout)
           \/ Mutex_dequeue_bulk_call(n, timeout)

\* The steps of the single-element try-functions of the lock-free back-ends,
\* which their single-element timed functions call.
LockFreeSingleSteps ==
    \/ SPSC_try_enqueue_check
    \/ SPSC_try_enqueue_write
    \/ SPSC_try_enqueue_publish
    \/ SPSC_try_dequeue_check
    \/ SPSC_try_dequeue_read
    \/ SPSC_try_dequeue_publish
    \/ Mmap_try_enqueue_check
    \/ Mmap_try_enqueue_write
    \/ Mmap_try_enqueue_publish
    \/ Mmap_try_dequeue_check
    \/ Mmap_try_dequeue_read
    \/ Mmap_try_dequeue_publish

\* The steps of the bulk try-functions of the lock-free back-ends, which
\* their bulk timed functions call.
LockFreeBulkSteps ==
    \/ SPSC_try_enqueue_bulk_plan
    \/ SPSC_try_enqueue_bulk_seg1
    \/ SPSC_try_enqueue_bulk_seg2
    \/ SPSC_try_enqueue_bulk_store
    \/ SPSC_try_dequeue_bulk_plan
    \/ SPSC_try_dequeue_bulk_seg1
    \/ SPSC_try_dequeue_bulk_seg2
    \/ SPSC_try_dequeue_bulk_store
    \/ Mmap_try_enqueue_bulk_plan
    \/ Mmap_try_enqueue_bulk_chunk1
    \/ Mmap_try_enqueue_bulk_chunk2
    \/ Mmap_try_enqueue_bulk_store
    \/ Mmap_try_dequeue_bulk_plan
    \/ Mmap_try_dequeue_bulk_chunk1
    \/ Mmap_try_dequeue_bulk_chunk2
    \/ Mmap_try_dequeue_bulk_store

\* The critical sections of the try-functions of MutexQueue.
MutexSingleTrySteps ==
    \/ Mutex_try_enqueue_locked
    \/ Mutex_try_dequeue_locked

MutexBulkTrySteps ==
    \/ Mutex_try_enqueue_bulk_locked
    \/ Mutex_try_dequeue_bulk_locked

\* What every function of MutexQueue does, and the callers taking a result.
CommonSteps ==
    \/ Mutex_producer_lock
    \/ Mutex_enqueue_notify
    \/ Mutex_consumer_lock
    \/ Mutex_dequeue_notify
    \/ ProducerReturn
    \/ ConsumerReturn

\* The loops of the single-element timed functions.
SingleTimedSteps ==
    \/ SPSC_enqueue_timeout_check
    \/ SPSC_dequeue_timeout_check
    \/ Mmap_enqueue_timeout_check
    \/ Mmap_dequeue_timeout_check
    \/ Mutex_enqueue_locked
    \/ Mutex_dequeue_locked

\* The loops of the bulk timed functions.
BulkTimedSteps ==
    \/ SPSC_enqueue_bulk_loop
    \/ SPSC_dequeue_bulk_loop
    \/ Mmap_enqueue_bulk_loop
    \/ Mmap_dequeue_bulk_loop
    \/ Mutex_enqueue_bulk_locked
    \/ Mutex_dequeue_bulk_locked

\* Waiting on the condition variables of MutexQueue, and the clock.
WaitSteps ==
    \/ Mutex_producer_wait_timeout
    \/ Mutex_producer_wait_spurious
    \/ Mutex_producer_relock
    \/ Mutex_consumer_wait_timeout
    \/ Mutex_consumer_wait_spurious
    \/ Mutex_consumer_relock
    \/ Tick

\* Producer and consumer call the try-operations, concurrently or from one
\* thread.
Next ==
    \/ SingleTryCalls \/ BulkTryCalls
    \/ LockFreeSingleSteps \/ LockFreeBulkSteps
    \/ MutexSingleTrySteps \/ MutexBulkTrySteps
    \/ CommonSteps

Spec == Init /\ [][Next]_vars

\* Producer and consumer call the single-element operations, try and timed,
\* concurrently or from one thread.
NextSingle ==
    \/ SingleTryCalls \/ SingleTimedCalls
    \/ LockFreeSingleSteps \/ MutexSingleTrySteps
    \/ SingleTimedSteps \/ WaitSteps
    \/ CommonSteps

SpecSingle == Init /\ [][NextSingle]_vars

\* Producer and consumer call the bulk timed operations, concurrently or from
\* one thread.
NextBulkTimed ==
    \/ BulkTimedCalls
    \/ LockFreeBulkSteps
    \/ BulkTimedSteps \/ WaitSteps
    \/ CommonSteps

SpecBulkTimed == Init /\ [][NextBulkTimed]_vars

\* One thread holds both handles and calls any operation.
InitSeq == Init /\ harness = "one_thread"

NextSeq ==
    \/ SingleTryCalls \/ BulkTryCalls
    \/ SingleTimedCalls \/ BulkTimedCalls
    \/ LockFreeSingleSteps \/ LockFreeBulkSteps
    \/ MutexSingleTrySteps \/ MutexBulkTrySteps
    \/ SingleTimedSteps \/ BulkTimedSteps \/ WaitSteps
    \/ CommonSteps

SpecSeq == InitSeq /\ [][NextSeq]_vars

(* ------------- observers concurrent with try-operations --------------- *)

\* Two threads on a lock-free queue: each calls the try-operations of its
\* handle and, between them, size() and empty().
InitObserve == Init /\ LockFree /\ harness = "two_threads"

NextObserve ==
    \/ \E kind \in {"try_enqueue", "try_enqueue_move"} :
           \/ SPSC_try_enqueue_call(kind)
           \/ Mmap_try_enqueue_call(kind)
    \/ SPSC_try_dequeue_call
    \/ Mmap_try_dequeue_call
    \/ \E n \in 0..MaxCount :
           \/ SPSC_try_enqueue_bulk_call(n)
           \/ Mmap_try_enqueue_bulk_call(n)
           \/ SPSC_try_dequeue_bulk_call(n)
           \/ Mmap_try_dequeue_bulk_call(n)
    \/ LockFreeSingleSteps \/ LockFreeBulkSteps
    \/ ProducerReturn
    \/ ConsumerReturn
    \/ Sink_observe_call
    \/ Sink_observe_first
    \/ Sink_observe_second
    \/ Sink_observe_return
    \/ Source_observe_call
    \/ Source_observe_first
    \/ Source_observe_second
    \/ Source_observe_return

SpecObserve == InitObserve /\ [][NextObserve]_vars

(* ------------------ a queue from creation to teardown ------------------ *)

\* MmapSPSC::create() is about to run the constructor for elements of some
\* size: head_(0), tail_(0), buffer_(nullptr), fd_(-1), then initialize_mmap.
InitCreate ==
    /\ backend = "MmapSPSC"
    /\ Capacity \in {cap \in 1..MaxCapacity : LockFreeAccepts(cap)}
    /\ harness = "one_thread"
    /\ head_ = 0
    /\ tail_ = 0
    /\ buffer_ = [k \in 0..(Capacity - 1) |-> Raw]
    /\ mtx_ = "free"
    /\ p = IdleP
    /\ c = IdleC
    /\ nextVal = 1
    /\ enqueued = <<>>
    /\ dequeued = <<>>
    /\ owner = NoOwner
    /\ \E es \in 1..MaxElemSize :
           mem = [NoStorage(es) EXCEPT !.step = "memfd"]

\* A queue of a shared-ownership back-end: MmapSPSC::create() is called, or
\* MutexQueue::make_queue() has returned.  One thread holds both handles.
InitLifetime ==
    \/ InitCreate
    \/ Init /\ backend = "MutexQueue" /\ harness = "one_thread"

\* The thread calls try-operations through the handles it holds, moves the
\* handles and destroys them.
NextLifetime ==
    \/ Mmap_init_memfd
    \/ Mmap_init_ftruncate
    \/ Mmap_init_reserve
    \/ Mmap_init_map_first
    \/ Mmap_init_map_second
    \/ \E kind \in {"try_enqueue", "try_enqueue_move"} :
           \/ Mmap_try_enqueue_call(kind)
           \/ Mutex_try_enqueue_call(kind)
    \/ Mmap_try_dequeue_call
    \/ Mutex_try_dequeue_call
    \/ \E n \in 0..MaxCount :
           \/ Mmap_try_enqueue_bulk_call(n)
           \/ Mutex_try_enqueue_bulk_call(n)
           \/ Mmap_try_dequeue_bulk_call(n)
           \/ Mutex_try_dequeue_bulk_call(n)
    \/ Mmap_try_enqueue_check
    \/ Mmap_try_enqueue_write
    \/ Mmap_try_enqueue_publish
    \/ Mmap_try_dequeue_check
    \/ Mmap_try_dequeue_read
    \/ Mmap_try_dequeue_publish
    \/ Mmap_try_enqueue_bulk_plan
    \/ Mmap_try_enqueue_bulk_chunk1
    \/ Mmap_try_enqueue_bulk_chunk2
    \/ Mmap_try_enqueue_bulk_store
    \/ Mmap_try_dequeue_bulk_plan
    \/ Mmap_try_dequeue_bulk_chunk1
    \/ Mmap_try_dequeue_bulk_chunk2
    \/ Mmap_try_dequeue_bulk_store
    \/ MutexSingleTrySteps \/ MutexBulkTrySteps
    \/ CommonSteps
    \/ Sink_move
    \/ Source_move
    \/ Shell_drop
    \/ Sink_drop
    \/ Source_drop

SpecLifetime == InitLifetime /\ [][NextLifetime]_vars

(* ------------------- graceful shutdown with batches -------------------- *)

\* test_graceful_shutdown_with_bulk_operations and its MutexQueue twin.

\* The producer thread offers its current batch:
\*   success = sink.enqueue(batch_data.data(), batch_data.size(), 100ms);
\* The batch holds the same elements when it is offered again.  The run is
\* cut off (producer_shutdown) once MaxItems elements are in the queue's
\* history.
Shutdown_enqueue_batch(timeout) ==
    /\ Len(enqueued) < MaxItems
    /\ \/ SPSC_enqueue_bulk_call(BatchSize, timeout)
       \/ Mmap_enqueue_bulk_call(BatchSize, timeout)
       \/ Mutex_enqueue_bulk_call(BatchSize, timeout)

\* if (success) total_produced.fetch_add(10); else --batch;
\* total_produced is nextVal - 1: the batch is counted and the next one
\* prepared on true, the whole batch is offered again on false.
Shutdown_producer_result ==
    /\ p.pc = "done"
    /\ nextVal' = IF p.result = TRUE THEN nextVal + p.n ELSE nextVal
    /\ p' = IdleP
    /\ UNCHANGED <<config, queue, c, enqueued, dequeued>>

\* The consumer thread: dequeued = source.dequeue(buffer.data(),
\* buffer.size(), 100ms), in the main loop and in the final drain.
Shutdown_dequeue(n, timeout) ==
    \/ SPSC_dequeue_bulk_call(n, timeout)
    \/ Mmap_dequeue_bulk_call(n, timeout)
    \/ Mutex_dequeue_bulk_call(n, timeout)

\* total_produced and total_consumed of the test; the consumer adds the
\* count each dequeue returned, which is the number of elements it removed.
total_produced == nextVal - 1
total_consumed == Len(dequeued)

InitShutdown == Init /\ harness = "two_threads"

NextShutdown ==
    \/ \E timeout \in 1..MaxTimeout : Shutdown_enqueue_batch(timeout)
    \/ \E n \in 1..MaxCount, timeout \in 1..MaxTimeout :
           Shutdown_dequeue(n, timeout)
    \/ LockFreeBulkSteps
    \/ BulkTimedSteps
    \/ WaitSteps
    \/ Mutex_producer_lock
    \/ Mutex_enqueue_notify
    \/ Mutex_consumer_lock
    \/ Mutex_dequeue_notify
    \/ Shutdown_producer_result
    \/ ConsumerReturn

SpecShutdown == InitShutdown /\ [][NextShutdown]_vars

(* --------------- transfer of MaxItems elements, fairly ----------------- *)

\* test_blocking_concurrent and test_blocking_bulk_concurrent: the producer
\* thread transfers MaxItems elements by timed operations and the consumer
\* thread receives MaxItems elements by timed operations.  The timeouts are
\* so long (seconds) that no deadline is reached: the clock does not tick.

\* assert(sink.enqueue(i, 5s)); assert(sink.enqueue(batch.data(), n, 5s));
Live_enqueue ==
    \/ SPSC_enqueue_call("enqueue", MaxTimeout)
    \/ Mmap_enqueue_call("enqueue", MaxTimeout)
    \/ Mutex_enqueue_call("enqueue", MaxTimeout)
    \/ \E n \in 1..MaxCount :
           \/ SPSC_enqueue_bulk_call(n, MaxTimeout)
           \/ Mmap_enqueue_bulk_call(n, MaxTimeout)
           \/ Mutex_enqueue_bulk_call(n, MaxTimeout)

\* source.dequeue(5s); source.dequeue(batch.data(), to_dequeue, 5s) with
\* to_dequeue at most what is still to be received.
Live_dequeue ==
    \/ /\ Len(dequeued) < MaxItems
       /\ \/ SPSC_dequeue_call(MaxTimeout)
          \/ Mmap_dequeue_call(MaxTimeout)
          \/ Mutex_dequeue_call(MaxTimeout)
    \/ \E n \in 1..MaxCount :
           /\ Len(dequeued) + n <= MaxItems
           /\ \/ SPSC_dequeue_bulk_call(n, MaxTimeout)
              \/ Mmap_dequeue_bulk_call(n, MaxTimeout)
              \/ Mutex_dequeue_bulk_call(n, MaxTimeout)

\* Every step the producer thread takes when it is scheduled.  A spurious
\* wake-up is not among them: it may happen, nothing makes it happen.
ProducerSteps ==
    \/ Live_enqueue
    \/ SPSC_try_enqueue_check \/ SPSC_try_enqueue_write
    \/ SPSC_try_enqueue_publish
    \/ SPSC_try_enqueue_bulk_plan \/ SPSC_try_enqueue_bulk_seg1
    \/ SPSC_try_enqueue_bulk_seg2 \/ SPSC_try_enqueue_bulk_store
    \/ SPSC_enqueue_timeout_check \/ SPSC_enqueue_bulk_loop
    \/ Mmap_try_enqueue_check \/ Mmap_try_enqueue_write
    \/ Mmap_try_enqueue_publish
    \/ Mmap_try_enqueue_bulk_plan \/ Mmap_try_enqueue_bulk_chunk1
    \/ Mmap_try_enqueue_bulk_chunk2 \/ Mmap_try_enqueue_bulk_store
    \/ Mmap_enqueue_timeout_check \/ Mmap_enqueue_bulk_loop
    \/ Mutex_producer_lock \/ Mutex_enqueue_locked
    \/ Mutex_enqueue_bulk_locked \/ Mutex_producer_relock
    \/ Mutex_enqueue_notify
    \/ ProducerReturn

\* Every step the consumer thread takes when it is scheduled.
ConsumerSteps ==
    \/ Live_dequeue
    \/ SPSC_try_dequeue_check \/ SPSC_try_dequeue_read
    \/ SPSC_try_dequeue_publish
    \/ SPSC_try_dequeue_bulk_plan \/ SPSC_try_dequeue_bulk_seg1
    \/ SPSC_try_dequeue_bulk_seg2 \/ SPSC_try_dequeue_bulk_store
    \/ SPSC_dequeue_timeout_check \/ SPSC_dequeue_bulk_loop
    \/ Mmap_try_dequeue_check \/ Mmap_try_dequeue_read
    \/ Mmap_try_dequeue_publish
    \/ Mmap_try_dequeue_bulk_plan \/ Mmap_try_dequeue_bulk_chunk1
    \/ Mmap_try_dequeue_bulk_chunk2 \/ Mmap_try_dequeue_bulk_store
    \/ Mmap_dequeue_timeout_check \/ Mmap_dequeue_bulk_loop
    \/ Mutex_consumer_lock \/ Mutex_dequeue_locked
    \/ Mutex_dequeue_bulk_locked \/ Mutex_consumer_relock
    \/ Mutex_dequeue_notify
    \/ ConsumerReturn

\* Two threads; a ring of Capacity 1 never accepts an element.
InitLive == Init /\ harness = "two_threads" /\ Capacity >= 2

NextLive ==
    \/ ProducerSteps
    \/ ConsumerSteps
    \/ Mutex_producer_wait_spurious
    \/ Mutex_consumer_wait_spurious

\* Fair scheduling: a thread that can take a step again and again does take
\* one (strong fairness, since the mutex the other thread takes and releases
\* disables and enables the step of a thread that wants the lock).
SpecLive ==
    /\ InitLive /\ [][NextLive]_vars
    /\ SF_vars(ProducerSteps) /\ SF_vars(ConsumerSteps)

(* ------------------ timed operations and the clock --------------------- *)

\* One thread calls the timed operations on a ring of any Capacity, or two
\* threads call them on a ring with one usable slot.
InitTimeout ==
    /\ Init
    /\ harness = "one_thread" \/ (harness = "two_threads" /\ Capacity = 2)

\* The two threads stop calling once the producer has had TimeoutItems
\* elements accepted.
MoreCalls == harness = "one_thread" \/ nextVal <= TimeoutItems

NextTimeout ==
    \/ MoreCalls /\ (SingleTimedCalls \/ BulkTimedCalls)
    \/ LockFreeSingleSteps \/ LockFreeBulkSteps
    \/ SingleTimedSteps \/ BulkTimedSteps \/ WaitSteps
    \/ CommonSteps

\* The producer thread, inside a call, is scheduled and takes its next step.
ProducerRuns ==
    InCall(p) /\ (ProducerSteps \/ Mutex_producer_wait_timeout)

\* The consumer thread, inside a call, is scheduled and takes its next step.
ConsumerRuns ==
    InCall(c) /\ (ConsumerSteps \/ Mutex_consumer_wait_timeout)

\* The thread that holds the mutex of a MutexQueue takes its next step.
MutexHolderRuns ==
    \/ mtx_ = "producer" /\ ProducerRuns
    \/ mtx_ = "consumer" /\ ConsumerRuns

\* The clock advances, and a thread inside a critical section leaves it.
\* Nothing else is promised: either thread may stop for good between two
\* calls or at any other point of a call.
SpecTimeout ==
    /\ InitTimeout /\ [][NextTimeout]_vars
    /\ WF_vars(Tick) /\ WF_vars(MutexHolderRuns)

(* ------------------- MutexQueue, every operation ----------------------- *)

\* A MutexQueue whose handles call every operation, try and timed, single
\* and bulk, and the observers, concurrently or from one thread.
InitMutex == Init /\ backend = "MutexQueue"

\* The producer stops calling once MutexItems elements have been accepted.
MoreEnqueues == nextVal <= MutexItems

NextMutex ==
    \/ /\ MoreEnqueues
       /\ \/ \E kind \in {"try_enqueue", "try_enqueue_move"} :
                 Mutex_try_enqueue_call(kind)
          \/ \E n \in 0..MaxCount : Mutex_try_enqueue_bulk_call(n)
          \/ \E kind \in {"enqueue", "enqueue_move"},
                   timeout \in 0..MaxTimeout :
                 Mutex_enqueue_call(kind, timeout)
          \/ \E n \in 0..MaxCount, timeout \in 0..MaxTimeout :
                 Mutex_enqueue_bulk_call(n, timeout)
    \/ Mutex_try_dequeue_call
    \/ \E n \in 0..MaxCount : Mutex_try_dequeue_bulk_call(n)
    \/ \E timeout \in 0..MaxTimeout : Mutex_dequeue_call(timeout)
    \/ \E n \in 0..MaxCount, timeout \in 0..MaxTimeout :
           Mutex_dequeue_bulk_call(n, timeout)
    \/ Mutex_sink_observe_call
    \/ Mutex_sink_observe_locked
    \/ Sink_observe_return
    \/ Mutex_source_observe_call
    \/ Mutex_source_observe_locked
    \/ Source_observe_return
    \/ MutexSingleTrySteps \/ MutexBulkTrySteps
    \/ Mutex_enqueue_locked \/ Mutex_dequeue_locked
    \/ Mutex_enqueue_bulk_locked \/ Mutex_dequeue_bulk_locked
    \/ WaitSteps
    \/ CommonSteps

SpecMutex == InitMutex /\ [][NextMutex]_vars

(* ----------------------------- properties ------------------------------ *)

IsPrefix(s, t) == Len(s) <= Len(t) /\ SubSeq(t, 1, Len(s)) = s

FifoPrefix == IsPrefix(dequeued, enqueued)

\* The n slots of the ring from index `from` on, around the end of the array.
Slots(from, n) == {(from + k) % Capacity : k \in 0..(n - 1)}

\* The published occupied region [head_, tail_).
Occupied == Slots(head_, (tail_ - head_) % Capacity)

Quiescent == harness = "one_thread"

SingleTryEnqueue(q) == q.call \in {"try_enqueue", "try_enqueue_move"}
BulkTryEnqueue(q) == q.call = "try_enqueue_bulk"
SingleTryDequeue(q) == q.call = "try_dequeue"
BulkTryDequeue(q) == q.call = "try_dequeue_bulk"

\* C1: on the lock-free back-ends, under every interleaving of one producer
\* and one consumer using the single-element and bulk try-operations, the
\* sequence of dequeued elements is at every moment a prefix of the sequence
\* of enqueued elements: nothing is lost, duplicated, reordered or invented.
C1_FifoPrefix == LockFree => FifoPrefix

\* A wrapping bulk enqueue and a bulk dequeue run at the same time after
\* elements have already been taken.
C1_Witness ==
    /\ LockFree /\ harness = "two_threads"
    /\ p.pc \in {"seg2", "chunk2"}
    /\ c.pc \in {"seg1", "seg2", "chunk1", "chunk2"}
    /\ Len(dequeued) >= 1

\* C2: with nothing running concurrently, single-element try_enqueue returns
\* false exactly when the ring holds Capacity - 1 elements, and try_dequeue
\* returns nothing exactly when it holds none.
C2_FullAndEmpty ==
    Quiescent =>
        /\ (p.pc = "done" /\ SingleTryEnqueue(p)) =>
               (p.result = FALSE <=> Len(PreContent(p)) = Capacity - 1)
        /\ (c.pc = "done" /\ SingleTryDequeue(c)) =>
               (c.result = FALSE <=> Len(PreContent(c)) = 0)

\* After Capacity - 1 enqueues filled the ring and a dequeue made room, it was
\* filled again, and a further try_enqueue is refused.
C2_Witness ==
    /\ Quiescent /\ Capacity = MaxCapacity
    /\ p.pc = "done" /\ SingleTryEnqueue(p) /\ p.result = FALSE
    /\ Len(enqueued) = Capacity /\ Len(dequeued) = 1

\* C3: when one thread holds both handles, then after any sequence of
\* completed operations (single or bulk, try or timed) size() is the number
\* of elements enqueued minus the number dequeued, and empty() holds exactly
\* when that number is zero.
C3_SizeAndEmpty ==
    (Quiescent /\ ~InCall(p) /\ ~InCall(c)) =>
        /\ size = Len(enqueued) - Len(dequeued)
        /\ empty <=> Len(enqueued) = Len(dequeued)

\* A timed bulk enqueue has just completed on a ring whose content wraps
\* around the end of the array.
C3_Witness ==
    /\ Quiescent /\ p.pc = "done" /\ p.call = "enqueue_bulk"
    /\ tail_ < head_ /\ size >= 2 /\ Len(dequeued) >= 1

\* C4: with nothing running concurrently, bulk try_enqueue(data, n) returns
\* k = min(n, Capacity - 1 - occupancy) and the ring then holds its previous
\* content followed by data[0..k) in order.
C4_BulkEnqueue ==
    (Quiescent /\ p.pc = "done" /\ BulkTryEnqueue(p)) =>
        LET k == Min(p.n, Capacity - 1 - Len(PreContent(p)))
        IN  /\ p.result = k
            /\ Content = PreContent(p) \o SubSeq(p.data, 1, k)

\* A bulk enqueue found room for some but not all of its elements, behind
\* content that was already there, and the tail wrapped.
C4_Witness ==
    /\ Quiescent /\ p.pc = "done" /\ BulkTryEnqueue(p)
    /\ p.result >= 2 /\ p.result < p.n
    /\ Len(PreContent(p)) >= 1 /\ tail_ < head_

\* C5: with nothing running concurrently, bulk try_dequeue(buf, n) returns
\* k = min(n, occupancy), buf[0..k) holds the k oldest elements in order,
\* they are removed from the ring and buf[k..n) is not written; on an empty
\* ring it returns 0, reads no slot and leaves head_, tail_ and the slots as
\* they were.
C5_BulkDequeue ==
    (Quiescent /\ c.pc = "done" /\ BulkTryDequeue(c)) =>
        LET k == Min(c.n, Len(PreContent(c)))
        IN  /\ c.result = k
            /\ SubSeq(c.out, 1, k) = SubSeq(PreContent(c), 1, k)
            /\ Content = SubSeq(PreContent(c), k + 1, Len(PreContent(c)))
            /\ \A j \in (k + 1)..c.n : c.out[j] = Untouched
            /\ k = 0 => c.read = {} /\ queue = c.pre

\* A bulk dequeue took fewer elements than asked for, from both ends of the
\* array.
C5_Witness ==
    /\ Quiescent /\ c.pc = "done" /\ BulkTryDequeue(c)
    /\ c.result = 2 /\ c.n = 3
    /\ c.pre[1] = Capacity - 1 /\ head_ = 1

\* C6: in every reachable state head_ and tail_ are valid slot indices,
\* 0 <= head_, tail_ < Capacity, and the occupancy (tail_ - head_) mod
\* Capacity, which is the number of elements enqueued and not yet dequeued,
\* is at most Capacity - 1.
C6_IndexRange ==
    /\ head_ \in 0..(Capacity - 1)
    /\ tail_ \in 0..(Capacity - 1)
    /\ (tail_ - head_) % Capacity <= Capacity - 1
    /\ Len(enqueued) - Len(dequeued) = (tail_ - head_) % Capacity

\* The largest ring is full, its content wraps, and both threads are inside
\* a call.
C6_Witness ==
    /\ harness = "two_threads" /\ Capacity = MaxCapacity
    /\ (tail_ - head_) % Capacity = Capacity - 1 /\ tail_ < head_
    /\ InCall(p) /\ InCall(c)

\* C7: a single-element enqueue of an rvalue, try or timed, moves from the
\* caller's payload exactly once when it returns true and not at all when it
\* returns false, however often it found the ring full in between.
C7_MoveOnce ==
    Rvalue(p) =>
        /\ p.moves <= 1
        /\ p.pc \in {"timeout_check", "wait", "wake"} =>
               p.moves = 0 /\ p.value = p.data[1]
        /\ p.pc = "done" =>
               IF p.result THEN p.moves = 1
               ELSE p.moves = 0 /\ p.value = p.data[1]

\* A timed rvalue enqueue found the ring full, tried again and succeeded.
C7_Witness ==
    /\ p.pc = "done" /\ p.call = "enqueue_move"
    /\ p.result /\ p.retry /\ p.moves = 1

\* What C8 requires of a state of a lock-free back-end.
C8_Regions ==
    /\ ~p.oob /\ ~c.oob
    /\ InCall(p) => p.written \cap Occupied = {}
    /\ InCall(c) =>
           /\ c.read \subseteq Occupied
           /\ c.read \subseteq
                  Slots(c.current_head,
                        (c.current_tail - c.current_head) % Capacity)

\* What C8 requires of a step of a lock-free back-end.
C8_Order ==
    /\ tail_' # tail_ =>
           Slots(tail_, (tail_' - tail_) % Capacity) \subseteq p.written
    /\ head_' # head_ =>
           Slots(head_, (head_' - head_) % Capacity) \subseteq c.read

\* C8: on the lock-free back-ends, for single-element and bulk operations,
\* the producer writes a slot only while the slot is outside the published
\* occupied region [head_, tail_), the consumer reads a slot only after it
\* loaded a tail_ that covers the slot, every slot a tail_ store publishes
\* was written before the store, and every slot a head_ store releases was
\* read before the store.
C8_SlotOwnership ==
    [](LockFree => C8_Regions) /\ [][LockFree => C8_Order]_vars

\* The producer has written two slots it has not published while the
\* consumer has read a slot it has not released.
C8_Witness ==
    /\ LockFree /\ harness = "two_threads"
    /\ InCall(p) /\ Cardinality(p.written) >= 2
    /\ InCall(c) /\ Cardinality(c.read) >= 1

\* What C9 requires of a step.
C9_Step ==
    /\ (BulkTryEnqueue(p) /\ tail_' # tail_) =>
           /\ p'.pc \in {"done", "notify"}
           /\ p'.result = (tail_' - tail_) % Capacity
           /\ \A j \in 1..p'.result :
                  buffer_'[(tail_ + j - 1) % Capacity] = p.data[j]
           /\ LockFree =>
                  /\ buffer_' = buffer_
                  /\ Slots(tail_, p'.result) \subseteq p.written
    /\ (BulkTryEnqueue(p) /\ p.pc \in {"done", "notify"}) => tail_' = tail_
    /\ (BulkTryEnqueue(p') /\ p'.pc \in {"done", "notify"}
            /\ p.pc \notin {"done", "notify"}) =>
           (tail_' - tail_) % Capacity = p'.result

\* C9: a bulk try_enqueue that accepts k elements changes tail_ exactly
\* once, by k, in its last step, after all k slots hold their elements; up
\* to that step tail_ is unchanged, so a concurrent consumer sees either
\* none or all of the k elements.
C9_SinglePublish == [][C9_Step]_vars

\* A bulk try_enqueue has published three elements at once while the
\* consumer is inside a call that loaded the new tail_.
C9_Witness ==
    /\ LockFree /\ harness = "two_threads"
    /\ p.pc = "done" /\ BulkTryEnqueue(p) /\ p.result = 3
    /\ c.pc \in {"read", "seg1", "chunk1"} /\ c.current_tail = tail_

\* The call of thread record q reported a full ring (producer) or an empty
\* ring (consumer) from a try-operation.
ReportedNothing(q) ==
    /\ q.pc = "done"
    /\ \/ (SingleTryEnqueue(q) \/ SingleTryDequeue(q)) /\ q.result = FALSE
       \/ (BulkTryEnqueue(q) \/ BulkTryDequeue(q)) /\ q.result = 0

\* What C10 requires of a state.
C10_Refused ==
    /\ ReportedNothing(p) =>
           /\ tail_ = p.pre[2] /\ p.written = {}
           /\ Quiescent => queue = p.pre
    /\ ReportedNothing(c) =>
           /\ head_ = c.pre[1] /\ c.read = {}
           /\ Quiescent => queue = c.pre

\* What C10 requires of a step: a step of the producer alone leaves head_
\* unchanged, a step of the consumer alone leaves tail_ unchanged.
C10_Step ==
    /\ (p' # p /\ c' = c) => head_' = head_
    /\ (c' # c /\ p' = p) => tail_' = tail_

\* C10: the enqueue-side operations never change head_ and the dequeue-side
\* operations never change tail_; a try_enqueue that reports the ring full
\* and a try_dequeue that reports it empty (single-element, or bulk
\* returning 0) leave head_, tail_ and every slot as they were.
C10_Frame == []C10_Refused /\ [][C10_Step]_vars

\* A bulk try_enqueue of several elements was refused by a full ring whose
\* content wraps.
C10_Witness ==
    /\ Quiescent /\ ReportedNothing(p) /\ BulkTryEnqueue(p) /\ p.n >= 2
    /\ Len(Content) = Capacity - 1 /\ tail_ < head_

(* --------------------------- timed operations -------------------------- *)

TimedEnqueue(q) == q.call \in {"enqueue", "enqueue_move", "enqueue_bulk"}
SingleTimedEnqueue(q) == q.call \in {"enqueue", "enqueue_move"}
BulkTimedEnqueue(q) == q.call = "enqueue_bulk"
SingleTimedDequeue(q) == q.call = "dequeue"
BulkTimedDequeue(q) == q.call = "dequeue_bulk"

\* The ring held Capacity - 1 elements when the call of thread record q began.
FullBefore(q) == Len(PreContent(q)) = Capacity - 1

\* The timed enqueue of the producer returned false after its deadline and
\* the ring is as it was when the call began.
TimedOutUnchanged ==
    /\ p.result = FALSE /\ Expired(p)
    /\ queue = p.pre
    /\ size = Capacity - 1
    /\ Content = PreContent(p)

\* C11 as stated: every timed enqueue, single-element or bulk, issued on a
\* full queue while no dequeue happens returns false once the deadline has
\* passed and leaves the queue unchanged (looked at for Capacity >= 2).
C11_FullRefusesEvery ==
    (Quiescent /\ p.pc = "done" /\ TimedEnqueue(p) /\ FullBefore(p)
     /\ Capacity >= 2)
        => TimedOutUnchanged

\* C11, amended: a timed enqueue of at least one element (single-element, or
\* bulk with count >= 1) issued on a full queue while no dequeue happens
\* returns false once the deadline has passed and leaves the queue
\* unchanged: size() is still Capacity - 1 and the stored elements and their
\* order are those before the call.  (A bulk call with count = 0 returns
\* true at once.)
C11_FullTimesOut ==
    (Quiescent /\ p.pc = "done" /\ TimedEnqueue(p) /\ FullBefore(p)
     /\ p.n >= 1)
        => TimedOutUnchanged

\* A bulk enqueue of several elements with a deadline in the future was
\* issued on a full ring of several elements and has timed out.
C11_Witness ==
    /\ Quiescent /\ p.pc = "done" /\ BulkTimedEnqueue(p) /\ FullBefore(p)
    /\ p.n >= 2 /\ p.timeout >= 1 /\ Capacity >= 3
    /\ p.result = FALSE

\* By the deadline of the producer's call the consumer had published a new
\* head_, so the ring was no longer full.  (A call that returns before its
\* deadline returns true; the deadline passing during the call is the only
\* case in which the outcome is open.)
RoomBeforeDeadline ==
    p.at_deadline # <<>> /\ p.at_deadline[1] # p.pre[1]

\* By the deadline of the consumer's call the producer had published a new
\* tail_, so the ring was no longer empty.
ElementBeforeDeadline ==
    c.at_deadline # <<>> /\ c.at_deadline[1] # c.pre[2]

\* C12: a timed single-element enqueue(v, T) issued on a full queue returns
\* true whenever the consumer makes the queue non-full at some time before
\* the deadline, and a timed dequeue issued on an empty queue returns a value
\* whenever an element is enqueued before its deadline.
C12_SucceedsIfRoomInTime ==
    /\ (p.pc = "done" /\ SingleTimedEnqueue(p) /\ FullBefore(p)
        /\ RoomBeforeDeadline)
           => p.result = TRUE
    /\ (c.pc = "done" /\ SingleTimedDequeue(c) /\ PreContent(c) = <<>>
        /\ ElementBeforeDeadline)
           => c.result = TRUE

\* C13: whenever a timed bulk dequeue(buf, n, T) returns k < n, its deadline
\* had passed at the moment it decided to return (the clock reading on which
\* it returned is the one the done state keeps); it never returns a short
\* count before the deadline.
C13_ShortOnlyAfterDeadline ==
    (c.pc = "done" /\ BulkTimedDequeue(c) /\ c.result < c.n) => Expired(c)

\* With both threads running, a timed bulk dequeue with a deadline in the
\* future returned some but not all of the elements it asked for.
C13_Witness ==
    /\ harness = "two_threads"
    /\ c.pc = "done" /\ BulkTimedDequeue(c) /\ c.timeout >= 1
    /\ c.result >= 1 /\ c.result < c.n

\* The elements of the call of producer record q that are in the queue's
\* history: every call offers elements larger than all offered before.
AppendedBy(q) ==
    IF q.data = <<>> THEN <<>>
    ELSE SelectSeq(enqueued, LAMBDA v : v >= q.data[1])

\* The last k elements of the sequence s.
Last(s, k) == SubSeq(s, Len(s) - k + 1, Len(s))

\* The cells of the output array o that hold an element.
Filled(o) == {j \in DOMAIN o : o[j] # Untouched}

\* C14: a timed bulk enqueue(data, n, timeout) returns true exactly when all
\* n elements data[0..n) have been appended to the queue, in order, over
\* however many partial attempts it took (what it has appended is at every
\* moment a prefix of data); a timed bulk dequeue(buf, n, timeout) returns
\* exactly the number k of elements it removed, and buf[0..k) holds them in
\* FIFO order: they are the k oldest elements, the ones that follow in the
\* enqueue order everything dequeued before.
C14_BulkTimedResult ==
    /\ BulkTimedEnqueue(p) =>
           /\ IsPrefix(AppendedBy(p), p.data)
           /\ p.pc = "done" => (p.result = TRUE <=> AppendedBy(p) = p.data)
    /\ (c.pc = "done" /\ BulkTimedDequeue(c)) =>
           /\ c.result \in 0..c.n
           /\ Filled(c.out) = 1..c.result
           /\ (head_ - c.pre[1]) % Capacity = c.result % Capacity
           /\ Len(dequeued) >= c.result
           /\ Last(dequeued, c.result) = SubSeq(c.out, 1, c.result)
           /\ IsPrefix(dequeued, enqueued)

\* With both threads running, a timed bulk enqueue of more elements than the
\* ring can hold has returned true and a timed bulk dequeue has returned
\* several elements.
C14_Witness ==
    /\ harness = "two_threads"
    /\ p.pc = "done" /\ BulkTimedEnqueue(p) /\ p.result = TRUE
    /\ p.n > Capacity - 1 /\ Capacity >= 2
    /\ c.pc = "done" /\ BulkTimedDequeue(c) /\ c.result >= 2

\* C15: a timed bulk operation that ends because its deadline passed returns
\* to its caller the partial progress made so far: the caller can tell from
\* the return value how many elements of the range were transferred.  The
\* dequeue returns that number.  The enqueue returns a bool, and false is
\* also what it returns when nothing was transferred (a full queue that stays
\* full), so the caller can tell only if false always means that nothing of
\* the range was appended.
C15_PartialProgressReported ==
    /\ (p.pc = "done" /\ BulkTimedEnqueue(p) /\ p.result = FALSE)
           => AppendedBy(p) = <<>>
    /\ (c.pc = "done" /\ BulkTimedDequeue(c))
           => c.result = Cardinality(Filled(c.out))

\* C16: in a run where the producer repeatedly calls the timed bulk enqueue
\* on fixed-size batches, counts a batch as produced only when the call
\* returns true and offers the whole batch again when it returns false, while
\* the consumer removes elements with timed bulk dequeues and finally drains
\* the queue after the producer has stopped, the total number of elements
\* consumed equals the total number counted as produced.  The producer may
\* stop between any two calls, so every state with both threads between
\* calls and the queue drained is an end of such a run.
C16_ConsumedEqualsProduced ==
    (p.pc = "idle" /\ c.pc = "idle" /\ empty)
        => total_consumed = total_produced

\* C17: a timed bulk dequeue of n elements with a positive timeout, issued on
\* a queue that holds k < n elements and receives no further enqueue during
\* the call, returns exactly k, with the k elements in FIFO order in
\* buf[0..k) and the queue left empty.
C17_PartialDrain ==
    (Quiescent /\ c.pc = "done" /\ BulkTimedDequeue(c) /\ c.timeout >= 1
     /\ Len(PreContent(c)) < c.n)
        => /\ c.result = Len(PreContent(c))
           /\ SubSeq(c.out, 1, Len(PreContent(c))) = PreContent(c)
           /\ Content = <<>>

\* The MaxItems elements the producer transfers, in the order it offers them.
Offered == [k \in 1..MaxItems |-> k]

\* Both sides have completed and the consumer has received every element
\* once, in order.
Delivered == dequeued = Offered /\ p.pc = "idle" /\ c.pc = "idle"

\* C18: with one producer transferring M elements by timed operations
\* (single or bulk) and one consumer receiving M elements by timed
\* operations, under fair scheduling of both threads and deadlines that do
\* not expire, what the consumer has received is always the beginning of
\* the offered sequence, and eventually both sides have completed with the
\* consumer holding all M elements exactly once and in order, for every
\* Capacity >= 2, also when M or one bulk enqueue exceeds Capacity - 1.
C18_EventuallyDelivered ==
    /\ [](IsPrefix(dequeued, Offered))
    /\ <>[]Delivered

\* Everything has been delivered through a ring that holds one element, and
\* the last call of the producer was one bulk enqueue of more elements than
\* the ring holds.
C18_Witness ==
    /\ dequeued = Offered /\ c.pc = "idle"
    /\ Capacity = 2
    /\ p.pc = "done" /\ BulkTimedEnqueue(p) /\ p.n > Capacity - 1
    /\ p.result = TRUE

(* --------------------------- one bounded FIFO -------------------------- *)

\* The bounded FIFO of at most cap - 1 elements that the three back-ends
\* implement, as functions of the sequence s it holds: what each
\* try-operation returns, what it hands out, and what the FIFO holds after.
Fifo_try_enqueue(s, cap, v) ==
    IF Len(s) = cap - 1 THEN [result |-> FALSE, content |-> s]
    ELSE [result |-> TRUE, content |-> Append(s, v)]

Fifo_try_enqueue_bulk(s, cap, data) ==
    LET k == Min(Len(data), cap - 1 - Len(s))
    IN  [result |-> k, content |-> s \o SubSeq(data, 1, k)]

Fifo_try_dequeue(s) ==
    IF s = <<>> THEN [result |-> FALSE, out |-> <<>>, content |-> s]
    ELSE [result |-> TRUE, out |-> <<Head(s)>>, content |-> Tail(s)]

Fifo_try_dequeue_bulk(s, n) ==
    LET k == Min(n, Len(s))
    IN  [result |-> k,
         out |-> [j \in 1..n |-> IF j <= k THEN s[j] ELSE Untouched],
         content |-> SubSeq(s, k + 1, Len(s))]

\* What the FIFO does on the try-operation of producer record q.
FifoEnqueue(q) ==
    IF BulkTryEnqueue(q)
    THEN Fifo_try_enqueue_bulk(PreContent(q), Capacity, q.data)
    ELSE Fifo_try_enqueue(PreContent(q), Capacity, q.data[1])

\* What the FIFO does on the try-operation of consumer record q.
FifoDequeue(q) ==
    IF BulkTryDequeue(q)
    THEN Fifo_try_dequeue_bulk(PreContent(q), q.n)
    ELSE Fifo_try_dequeue(PreContent(q))

\* The answers of size() and empty() are those of a FIFO holding s.
Observers(s) == size = Len(s) /\ (empty <=> s = <<>>)

\* C19: for every sequence of try-operations (single and bulk, any counts)
\* applied from one thread to queues of the same power-of-two Capacity,
\* SPSC, MmapSPSC and MutexQueue give identical return values, identical
\* dequeued elements and identical size()/empty() answers after every step.
\* Every back-end is compared with the one FIFO above, which does not know
\* the back-end: each operation returns and hands out what the FIFO does
\* on the content before it, leaves the content the FIFO leaves (so the
\* contents of the back-ends agree before the next operation), and size()
\* and empty() answer for that content.
C19_SameAsOneFifo ==
    (Quiescent /\ LockFreeAccepts(Capacity) /\ MutexAccepts(Capacity)) =>
        /\ (p.pc = "done" /\ (SingleTryEnqueue(p) \/ BulkTryEnqueue(p))) =>
               /\ p.result = FifoEnqueue(p).result
               /\ Content = FifoEnqueue(p).content
               /\ Observers(FifoEnqueue(p).content)
        /\ (c.pc = "done" /\ (SingleTryDequeue(c) \/ BulkTryDequeue(c))) =>
               /\ c.result = FifoDequeue(c).result
               /\ c.out = FifoDequeue(c).out
               /\ Content = FifoDequeue(c).content
               /\ Observers(FifoDequeue(c).content)

\* On the double-mapped back-end a bulk try_dequeue has taken several
\* elements from a content that wraps around the end of the array, after
\* which the queue is not empty.
C19_Witness ==
    /\ Quiescent /\ backend = "MmapSPSC" /\ Capacity = 4
    /\ c.pc = "done" /\ BulkTryDequeue(c) /\ c.result >= 2
    /\ c.pre[2] < c.pre[1] /\ head_ < c.pre[1]
    /\ Content # <<>>

(* ------------------------ MutexQueue, any Capacity --------------------- *)

\* The ring slot that lies k places after slot idx, by true modulo.
SlotAfter(idx, k) == (idx + k) % Capacity

\* A bulk enqueue that transferred r elements wrote them to the slots that
\* follow the tail it found, around the end of the array, and advanced tail_
\* by r.
WrittenAround(q, r) ==
    /\ tail_ = SlotAfter(q.pre[2], r)
    /\ \A j \in 0..(r - 1) : buffer_[SlotAfter(q.pre[2], j)] = q.data[j + 1]

\* A bulk dequeue that transferred r elements read them from the slots that
\* follow the head it found, around the end of the array, and advanced head_
\* by r.
ReadAround(q, r) ==
    /\ head_ = SlotAfter(q.pre[1], r)
    /\ \A j \in 0..(r - 1) : q.out[j + 1] = q.pre[3][SlotAfter(q.pre[1], j)]

\* C20: for MutexQueue with any Capacity >= 2, powers of two or not, every
\* sequence of single and bulk operations behaves as a bounded FIFO of at
\* most Capacity - 1 elements: the indices stay in 0..Capacity-1 and advance
\* by true modulo, a bulk transfer that crosses the end of the array
\* continues at slot 0, the elements handed out are, in order, the first
\* ones enqueued, and each try-operation returns what the bounded FIFO
\* returns.
C20_MutexAnyCapacity ==
    (Quiescent /\ backend = "MutexQueue") =>
        /\ Capacity >= 2
        /\ head_ \in 0..(Capacity - 1) /\ tail_ \in 0..(Capacity - 1)
        /\ Len(Content) <= Capacity - 1
        /\ enqueued = dequeued \o Content
        /\ (p.pc = "done" /\ (SingleTryEnqueue(p) \/ BulkTryEnqueue(p))) =>
               /\ p.result = FifoEnqueue(p).result
               /\ Content = FifoEnqueue(p).content
               /\ BulkTryEnqueue(p) => WrittenAround(p, p.result)
               /\ (SingleTryEnqueue(p) /\ p.result) => WrittenAround(p, 1)
        /\ (p.pc = "done" /\ BulkTimedEnqueue(p)) =>
               WrittenAround(p, Len(AppendedBy(p)))
        /\ (c.pc = "done" /\ (SingleTryDequeue(c) \/ BulkTryDequeue(c))) =>
               /\ c.result = FifoDequeue(c).result
               /\ c.out = FifoDequeue(c).out
               /\ Content = FifoDequeue(c).content
               /\ BulkTryDequeue(c) => ReadAround(c, c.result)
        /\ (c.pc = "done" /\ BulkTimedDequeue(c)) => ReadAround(c, c.result)

\* With Capacity 3 a bulk try_enqueue has put two elements into slots 2 and
\* 0 of a MutexQueue whose indices stood at 2.
C20_Witness ==
    /\ Quiescent /\ backend = "MutexQueue" /\ Capacity = 3
    /\ p.pc = "done" /\ BulkTryEnqueue(p) /\ p.result = 2
    /\ p.pre[2] = 2 /\ tail_ = 1
    /\ Len(dequeued) >= 2

(* ------------------------ ownership and storage ------------------------ *)

\* The queue came out of the factory of a shared-ownership back-end.
SharedBackend == backend \in {"MmapSPSC", "MutexQueue"}
Created == SharedBackend /\ owner.queue # "none"

\* C21: for MmapSPSC::create and MutexQueue::make_queue the queue object is
\* alive as long as its Sink or its Source is alive, and it is destroyed
\* exactly once, when the second of the two handles is dropped, whichever
\* is dropped first; moving a handle to a new owner, and destroying the
\* moved-from handle, neither destroys the queue nor changes this.
C21_SharedOwnership ==
    Created =>
        /\ owner.queue = "alive" <=> (SinkHeld \/ SourceHeld)
        /\ owner.queue = "destroyed" <=>
               (owner.sink = "dropped" /\ owner.source = "dropped")
        /\ owner.dtor_runs = IF owner.queue = "destroyed" THEN 1 ELSE 0
        /\ mem.step = "released" <=> owner.queue = "destroyed"

\* A double-mapped queue was destroyed by the drop of its Sink, after its
\* Source; handles had been moved and a moved-from handle still exists.
C21_Witness ==
    /\ backend = "MmapSPSC" /\ owner.queue = "destroyed"
    /\ owner.drops = <<"source", "sink">>
    /\ owner.moves >= 1 /\ owner.shells >= 1
    /\ Len(dequeued) >= 1

\* The sum of f[0], ..., f[k].
RECURSIVE SumTo(_, _)
SumTo(f, k) == IF k < 0 THEN 0 ELSE f[k] + SumTo(f, k - 1)

\* In-place constructions and destructor calls made on elements of the
\* ring once no call is in progress: one construction per enqueued element,
\* one destruction per dequeued element, and those of the teardown.
Constructions == Len(enqueued)
Destructions == Len(dequeued) + SumTo(mem.torn, Capacity - 1)

\* C22: when the last handle is dropped while elements are resident in the
\* ring, each of them is destroyed exactly once by the teardown; for the
\* double-mapped back-end the in-place constructions then equal the
\* destructor calls.
C22_ResidentDestroyed ==
    (Created /\ owner.queue = "destroyed") =>
        /\ \A i \in Occupied : mem.torn[i] = 1
        /\ backend = "MmapSPSC" => Constructions = Destructions

\* C23: if a step of MmapSPSC::initialize_mmap fails, the factory produces
\* no Sink and no Source and the descriptor, the reservation and the
\* mappings acquired by the earlier steps are released; after the factory
\* has returned, the storage stays in place as long as the queue is alive
\* and calls run on a live queue only, inside its storage.
C23_InitFailure ==
    backend = "MmapSPSC" =>
        /\ mem.step = "failed" =>
               /\ owner = NoOwner
               /\ ~mem.fd_open /\ ~mem.reserved
               /\ ~mem.first_mapped /\ ~mem.second_mapped
        /\ owner.queue = "alive" => mem = Mapped(mem)
        /\ (InCall(p) \/ InCall(c)) => owner.queue = "alive"
        /\ ~p.oob /\ ~c.oob

\* The mapping of the second half failed, after the descriptor was opened,
\* the region reserved and the first half mapped.
C23_Witness ==
    /\ backend = "MmapSPSC" /\ mem.step = "failed"
    /\ mem.failed_at = "map_second" /\ Capacity = 4

\* C24: in the double-mapped back-end slot i + Capacity is the same storage
\* as slot i for every i in [0, Capacity): the second mapping starts
\* Capacity * sizeof(T) bytes after the first.
C24_SlotsAlias ==
    (backend = "MmapSPSC" /\ owner.queue = "alive" /\ Capacity >= 2) =>
        /\ mem.mmap_size = Capacity * mem.elem_size
        /\ \A i \in 0..(Capacity - 1) :
               SlotStorage(i + Capacity) = SlotStorage(i)

(* ------------------------- concurrent observers ------------------------ *)

\* A call of size() or empty() on thread record q has its answer.
Observed(q) == q.pc = "observed"

\* The answer a call of fn gives on a queue whose indices are the pair ht.
TrueAnswer(fn, ht) ==
    IF fn = "size" THEN (ht[2] - ht[1]) % Capacity ELSE ht[1] = ht[2]

\* The answer of the call of record q was true of the queue at the moment
\* of one of its two loads.
TrueAtSomeInstant(q) ==
    \E k \in 1..Len(q.seen) : q.result = TrueAnswer(q.call, q.seen[k])

\* C25: on the lock-free engines size() and empty(), called through the
\* Sink on the producer thread or through the Source on the consumer thread
\* while the other side operates, return a value that was the true
\* occupancy (emptiness) of the queue at some instant during the call, and
\* size() is within 0..Capacity-1.
C25_ObserversConsistent ==
    LockFree =>
        /\ Observed(p) =>
               /\ TrueAtSomeInstant(p)
               /\ p.call = "size" => p.result \in 0..(Capacity - 1)
        /\ Observed(c) =>
               /\ TrueAtSomeInstant(c)
               /\ c.call = "size" => c.result \in 0..(Capacity - 1)

\* size() called through the Sink answered 3 for a queue that wrapped
\* around the end of the array, while a bulk dequeue of the consumer between
\* the two loads had taken elements out: the answer is not the occupancy at
\* the second load.
C25_Witness ==
    /\ LockFree /\ Capacity = 4
    /\ Observed(p) /\ p.call = "size" /\ p.result = 3
    /\ p.current_tail < p.current_head
    /\ p.seen[1] # p.seen[2]
    /\ TrueAnswer("size", p.seen[2]) <= 1

(* --------------------------- no endless wait --------------------------- *)

\* C26: every timed operation, single and bulk, enqueue and dequeue, on all
\* three back-ends, returns once its deadline has passed even if the other
\* side never makes progress again: a thread that keeps being scheduled
\* while it is inside a timed call gets the result of the call, whatever
\* the other thread does or fails to do outside a critical section.
C26_TimedReturns ==
    /\ SF_vars(ProducerRuns) => (InCall(p) ~> p.pc = "done")
    /\ SF_vars(ConsumerRuns) => (InCall(c) ~> c.pc = "done")

\* A timed bulk dequeue on MutexQueue has returned short after its deadline
\* while the producer, which never entered a call, held elements back.
C26_Witness ==
    /\ backend = "MutexQueue" /\ c.pc = "done" /\ BulkTimedDequeue(c)
    /\ c.result < c.n /\ c.at_deadline # <<>>
    /\ p.pc = "idle" /\ enqueued = <<>>

(* ------------------- try-operations never suspend ---------------------- *)

\* The number of elements the running bulk try-function has planned to
\* transfer, and the size of its second segment.
PlannedP(q) == q.to_enqueue + q.to_write
PlannedC(q) == q.to_dequeue + q.to_read
SecondP(q) == q.second_seg_size + q.second_chunk
SecondC(q) == q.second_segment + q.second_chunk

\* An upper bound on the steps a try-function still takes from the position
\* pc with loop counter i, count requested, planned to transfer and second
\* in its second segment.
StepsLeft(pc, i, count, planned, second) ==
    CASE pc \in {"publish", "store"} -> 1
      [] pc \in {"write", "read"} -> 2
      [] pc = "check" -> 3
      [] pc \in {"seg2", "chunk2"} -> (second - i) + 1
      [] pc \in {"seg1", "chunk1"} -> (planned - i) + 1
      [] pc = "plan" -> count + 2
      [] OTHER -> 0

StepsLeftP(q) == StepsLeft(q.pc, q.i, q.count, PlannedP(q), SecondP(q))
StepsLeftC(q) == StepsLeft(q.pc, q.i, q.count, PlannedC(q), SecondC(q))

\* A thread inside a try-operation of a lock-free engine can take its next
\* step wherever the other thread stands.
C27_NeverWaits ==
    LockFree =>
        /\ InCall(p) => ENABLED ProducerRuns
        /\ InCall(c) => ENABLED ConsumerRuns

\* A single-element try-operation has at most three steps left; a bulk
\* try-operation that has planned its transfer has at most one step left
\* for each element it transfers, and one more.
C27_Bounded ==
    LockFree =>
        /\ (InCall(p) /\ SingleTryEnqueue(p)) => StepsLeftP(p) <= 3
        /\ (InCall(c) /\ SingleTryDequeue(c)) => StepsLeftC(c) <= 3
        /\ (InCall(p) /\ BulkTryEnqueue(p) /\ p.pc # "plan") =>
               StepsLeftP(p) <= PlannedP(p) + 1
        /\ (InCall(c) /\ BulkTryDequeue(c) /\ c.pc # "plan") =>
               StepsLeftC(c) <= PlannedC(c) + 1

\* Each step of a thread inside a try-operation lowers the bound.
C27_Step ==
    LockFree =>
        /\ (InCall(p) /\ p' # p) => StepsLeftP(p') < StepsLeftP(p)
        /\ (InCall(c) /\ c' # c) => StepsLeftC(c') < StepsLeftC(c)

\* C27: every try-operation of the lock-free engines completes in a bounded
\* number of its own steps, a constant for the single-element operations
\* and linear in the transferred count for the bulk operations, and never
\* waits for the other thread, wherever that thread has stopped inside one
\* of its own operations.
C27_WaitFree == [](C27_NeverWaits /\ C27_Bounded) /\ [][C27_Step]_vars

\* A bulk try_enqueue has stored three elements and returned while the
\* consumer stood inside a try_dequeue, between its read and its store of
\* head_.
C27_Witness ==
    /\ LockFree /\ harness = "two_threads"
    /\ p.pc = "done" /\ BulkTryEnqueue(p) /\ p.result = 3
    /\ c.pc = "publish"

(* ------------------------ try before timing out ------------------------ *)

\* C28: every blocking operation of the lock-free engines, single-element
\* or bulk, tries before it can report a timeout, so that whatever the
\* timeout, zero and already expired included, it transfers what is
\* immediately possible: with nothing else running, an enqueue stores as
\* many of its elements as the ring had room for and a dequeue takes as many
\* as the ring held, up to its count.
C28_TriesFirst ==
    (Quiescent /\ LockFree) =>
        /\ (p.pc = "done" /\ SingleTimedEnqueue(p)) =>
               Len(AppendedBy(p)) =
                   Min(1, Capacity - 1 - Len(PreContent(p)))
        /\ (p.pc = "done" /\ BulkTimedEnqueue(p)) =>
               Len(AppendedBy(p)) =
                   Min(p.n, Capacity - 1 - Len(PreContent(p)))
        /\ (c.pc = "done" /\ SingleTimedDequeue(c)) =>
               Len(c.out) = Min(1, Len(PreContent(c)))
        /\ (c.pc = "done" /\ BulkTimedDequeue(c)) =>
               c.result = Min(c.n, Len(PreContent(c)))

(* ------------------------ wrap-around placement ------------------------ *)

\* No call is in progress.
AtRest == p.pc \in {"idle", "done"} /\ c.pc \in {"idle", "done"}

\* C29: an element enqueued when tail is Capacity-1 is stored at slot
\* Capacity-1 and tail becomes 0, the next one is stored at slot 0, and a
\* bulk enqueue that transfers k elements stores element j of the batch at
\* slot (tail + j) mod Capacity for every j < k, k being what the ring had
\* room for; the consumer returns the elements after all their predecessors
\* and in batch order.
C29_WrapPlacement ==
    Quiescent =>
        /\ (p.pc = "done" /\ SingleTryEnqueue(p) /\ p.result) =>
               /\ buffer_[p.pre[2]] = p.data[1]
               /\ tail_ = IF p.pre[2] = Capacity - 1 THEN 0 ELSE p.pre[2] + 1
        /\ (p.pc = "done" /\ BulkTryEnqueue(p)) =>
               /\ p.result = Min(p.n, Capacity - 1 - Len(PreContent(p)))
               /\ WrittenAround(p, p.result)
        /\ AtRest => enqueued = dequeued \o Content
        /\ (c.pc = "done" /\ BulkTryDequeue(c)) =>
               /\ SubSeq(c.out, 1, c.result) =
                      SubSeq(PreContent(c), 1, c.result)
               /\ Last(dequeued, c.result) = SubSeq(c.out, 1, c.result)

\* On SPSC with Capacity 4, tail 3 and head 2, a bulk try_enqueue has stored
\* its two elements at slots 3 and 0.
C29_Witness ==
    /\ Quiescent /\ backend = "SPSC" /\ Capacity = 4
    /\ p.pc = "done" /\ BulkTryEnqueue(p) /\ p.n = 2 /\ p.result = 2
    /\ p.pre[1] = 2 /\ p.pre[2] = 3
    /\ buffer_[3] = p.data[1] /\ buffer_[0] = p.data[2] /\ tail_ = 1

(* ------------------- vacant and live slots of MmapSPSC ----------------- *)

\* Slot i of the ring holds a constructed element.
LiveSlot(i) == buffer_[i] # Raw
LiveSlots == {i \in DOMAIN buffer_ : LiveSlot(i)}

\* The slots in which the step constructs an element, and those whose
\* element it moves out and destroys.
Constructed == p'.written \ p.written
Destroyed == c'.read \ c.read

\* Elements constructed by an enqueue, or destroyed by a dequeue, that has
\* not yet published them.
Unpublished(q, slots) == IF InCall(q) THEN Cardinality(slots) ELSE 0

\* The producer constructs only into a vacant slot, the consumer destroys
\* only a live slot, and nothing else changes a slot.
C30_Step ==
    backend = "MmapSPSC" =>
        \A i \in DOMAIN buffer_ :
            /\ i \in Constructed => (~LiveSlot(i) /\ buffer_'[i] # Raw)
            /\ i \in Destroyed => (LiveSlot(i) /\ buffer_'[i] = Raw)
            /\ buffer_'[i] # buffer_[i] =>
                   (i \in Constructed \/ i \in Destroyed)

\* One construction for each enqueued element and one destruction for each
\* dequeued one: the live slots are the elements constructed and not yet
\* destroyed.
C30_Count ==
    backend = "MmapSPSC" =>
        Cardinality(LiveSlots) =
            (Len(enqueued) + Unpublished(p, p.written))
            - (Len(dequeued) + Unpublished(c, c.read))

\* C30: in the double-mapped back-end every slot alternates vacant, live,
\* vacant: under every interleaving the producer placement-constructs only
\* into a vacant slot and the consumer moves out of and destroys only a
\* live slot, with one construction per successfully enqueued element and
\* one destruction per successfully dequeued element.
C30_SlotLifecycle == []C30_Count /\ [][C30_Step]_vars

\* Slot 0 has been constructed for the second time, the ring having
\* wrapped, while the consumer is inside a bulk dequeue and has destroyed an
\* element it has not yet published.
C30_Witness ==
    /\ backend = "MmapSPSC" /\ harness = "two_threads"
    /\ InCall(p) /\ 0 \in p.written /\ Len(enqueued) >= Capacity
    /\ InCall(c) /\ c.read # {} /\ BulkTryDequeue(c)

(* ------------------ notifications of the mutex engine ------------------ *)

\* The step leaves the point of a function of thread record q at which its
\* notify_one() stands (q2 is the record after the step).
Notifies(q, q2) == q.pc = "notify" /\ q2.pc # "notify"

\* The step brings the function to that point.
OwesNotify(q, q2) == q.pc # "notify" /\ q2.pc = "notify"

\* The step wakes the thread of record q from its wait on the condition
\* variable.
Woken(q, q2) == q.pc = "wait" /\ q2.pc = "wake"

C31_Step ==
    backend = "MutexQueue" =>
        \* a lock cycle that transfers goes on to notify the other side
        /\ enqueued' # enqueued => OwesNotify(p, p')
        /\ dequeued' # dequeued => OwesNotify(c, c')
        \* the notification reaches the waiting thread before the function
        \* returns or locks again
        /\ Notifies(p, p') => (c.pc = "wait" => Woken(c, c'))
        /\ Notifies(c, c') => (p.pc = "wait" => Woken(p, p'))
        \* a lock cycle that transfers nothing notifies nobody
        /\ OwesNotify(p, p') => enqueued' # enqueued
        /\ OwesNotify(c, c') => dequeued' # dequeued
        /\ (Woken(c, c') /\ p' # p) => Notifies(p, p')
        /\ (Woken(p, p') /\ c' # c) => Notifies(c, c')

\* C31: in the mutex engine every operation that transfers at least one
\* element notifies the condition variable of the opposite side after the
\* transfer (enqueue notifies not_empty, dequeue notifies not_full, a timed
\* bulk operation once per lock cycle), and an operation that transfers
\* nothing (full, empty or timeout) notifies nobody.
C31_Notifies == [][C31_Step]_vars

\* A timed bulk enqueue has stored the first part of its range and is about
\* to notify not_empty, on which the consumer waits.
C31_Witness ==
    /\ backend = "MutexQueue" /\ harness = "two_threads"
    /\ p.call = "enqueue_bulk" /\ p.pc = "notify"
    /\ p.total_enqueued > 0 /\ p.total_enqueued < p.n
    /\ c.pc = "wait"

(* --------------------- the mutex and the waiting ----------------------- *)

\* The thread of record q is blocked in wait_until, or has been woken and is
\* re-acquiring the mutex inside it.
Waiting(q) == q.pc \in {"wait", "wake"}

\* A timed bulk operation of q is between two lock cycles: total elements
\* transferred so far, of n asked.
BetweenSegments(q, total) ==
    /\ q.call \in {"enqueue_bulk", "dequeue_bulk"}
    /\ q.pc \in {"notify", "lock"}
    /\ total > 0 /\ total < q.n

TryCall(q) ==
    q.call \in {"try_enqueue", "try_enqueue_move", "try_enqueue_bulk",
                "try_dequeue", "try_dequeue_bulk"}

\* The critical section of whichever function the producer / the consumer
\* is in runs to its end.
ProducerCritical ==
    \/ Mutex_try_enqueue_locked \/ Mutex_try_enqueue_bulk_locked
    \/ Mutex_enqueue_locked \/ Mutex_enqueue_bulk_locked
    \/ Mutex_sink_observe_locked

ConsumerCritical ==
    \/ Mutex_try_dequeue_locked \/ Mutex_try_dequeue_bulk_locked
    \/ Mutex_dequeue_locked \/ Mutex_dequeue_bulk_locked
    \/ Mutex_source_observe_locked

\* The consumer's operation can go on: it can take the mutex, and with the
\* mutex it can run its critical section.
ConsumerCanProceed ==
    /\ c.pc = "lock" => ENABLED Mutex_consumer_lock
    /\ c.pc = "locked" => ENABLED ConsumerCritical

ProducerCanProceed ==
    /\ p.pc = "lock" => ENABLED Mutex_producer_lock
    /\ p.pc = "locked" => ENABLED ProducerCritical

\* Some thread inside a call can take a step, or the clock can bring the
\* deadline of a wait nearer.
NotStuck ==
    (InCall(p) \/ InCall(c)) =>
        \/ ENABLED (\/ Mutex_producer_lock \/ ProducerCritical
                    \/ Mutex_producer_wait_timeout \/ Mutex_producer_relock
                    \/ Mutex_enqueue_notify \/ Sink_observe_return)
        \/ ENABLED (\/ Mutex_consumer_lock \/ ConsumerCritical
                    \/ Mutex_consumer_wait_timeout \/ Mutex_consumer_relock
                    \/ Mutex_dequeue_notify \/ Source_observe_return)
        \/ ENABLED Tick

\* C32: in the mutex engine the mutex is never held while a thread waits on
\* a condition variable nor between two segments of a timed bulk operation,
\* and the try-operations never wait: whenever one side is waiting or
\* between segments the other side can acquire the mutex and complete its
\* operation, and no deadlock state is reachable.
C32_MutexReleased ==
    backend = "MutexQueue" =>
        /\ (Waiting(p) \/ BetweenSegments(p, p.total_enqueued)) =>
               (mtx_ # "producer" /\ ConsumerCanProceed)
        /\ (Waiting(c) \/ BetweenSegments(c, c.total_dequeued)) =>
               (mtx_ # "consumer" /\ ProducerCanProceed)
        /\ TryCall(p) => ~Waiting(p)
        /\ TryCall(c) => ~Waiting(c)
        /\ NotStuck

\* The producer is blocked on not_full inside a timed bulk enqueue that has
\* stored part of its range, and the consumer is at the lock of a dequeue.
C32_Witness ==
    /\ backend = "MutexQueue" /\ harness = "two_threads"
    /\ p.call = "enqueue_bulk" /\ p.pc = "wait"
    /\ p.total_enqueued > 0
    /\ c.pc = "lock" /\ c.call \in {"dequeue", "dequeue_bulk", "try_dequeue"}

(* ------------------- one mutex guards the whole ring ------------------- *)

\* The thread of record q is inside the block guarded by its lock object:
\* the statements of MutexQueue that name head_, tail_ or buffer_ all stand
\* in such a block.
InCritical(q) == q.pc = "locked"

\* The step takes the thread of record q through statements that read or
\* write head_, tail_ or buffer_: it runs the guarded block, or it leaves q2
\* with an answer computed from the indices.
Accesses(q, q2) ==
    /\ q2.pc # q.pc
    /\ \/ InCritical(q)
       \/ q2.pc \in {"observed", "notify", "wait"}

\* What size() or empty(), called by the thread of record q, says of the
\* queue as it is.
Answer(q) == IF q.call = "size" THEN Len(Content) ELSE Content = <<>>

\* The mutex is held exactly inside the guarded blocks, by the thread that is
\* inside.
C33_Held ==
    backend = "MutexQueue" =>
        /\ InCritical(p) <=> mtx_ = "producer"
        /\ InCritical(c) <=> mtx_ = "consumer"

C33_Step ==
    backend = "MutexQueue" =>
        /\ Accesses(p, p') => mtx_ = "producer"
        /\ Accesses(c, c') => mtx_ = "consumer"
        /\ queue' # queue => (Accesses(p, p') \/ Accesses(c, c'))
        /\ (p'.pc = "observed" /\ p.pc # "observed") => p'.result = Answer(p)
        /\ (c'.pc = "observed" /\ c.pc # "observed") => c'.result = Answer(c)

\* C33: in the mutex engine every read and every write of head_, tail_ and
\* the buffer, those of the observers empty() and size() included, is made
\* by a thread that holds the single mutex.
C33_UnderMutex == []C33_Held /\ [][C33_Step]_vars

\* The producer thread has called size() and got 1 for its answer while
\* the consumer thread is about to lock the mutex for a dequeue.
C33_Witness ==
    /\ backend = "MutexQueue" /\ harness = "two_threads"
    /\ p.pc = "observed" /\ p.call = "size" /\ p.result = 1
    /\ c.pc = "lock" /\ c.call = "dequeue"

(* ---------------- slot indices of the double-mapped ring --------------- *)

\* Every slot a call has constructed or destroyed lies inside the array.
C34_InRange ==
    backend = "MmapSPSC" =>
        /\ ~p.oob /\ ~c.oob
        /\ p.written \subseteq 0..(Capacity - 1)
        /\ c.read \subseteq 0..(Capacity - 1)

\* A transfer of k elements publishes (old index + k) mod Capacity.
C34_Step ==
    backend = "MmapSPSC" =>
        /\ enqueued' # enqueued =>
               tail_' = (tail_ + (Len(enqueued') - Len(enqueued))) % Capacity
        /\ dequeued' # dequeued =>
               head_' = (head_ + (Len(dequeued') - Len(dequeued))) % Capacity
        /\ tail_' # tail_ => enqueued' # enqueued
        /\ head_' # head_ => dequeued' # dequeued

Blocked(q) == q.pc = "wait"

\* A notify_one() for the condition variable the producer / the consumer
\* waits on is still to come: the other side has transferred and has not
\* yet notified.
NotFullPending == c.pc = "notify"
NotEmptyPending == p.pc = "notify"

\* C35: in the mutex engine no wake-up is lost: no reachable state has the
\* producer waiting on not_full while the queue is not full and no
\* notification for it is pending, and none has the consumer waiting on
\* not_empty while the queue is not empty and no notification for it is
\* pending.
C35_NoLostWakeup ==
    backend = "MutexQueue" =>
        /\ ~(Blocked(p) /\ ~full_unlocked /\ ~NotFullPending)
        /\ ~(Blocked(c) /\ head_ # tail_ /\ ~NotEmptyPending)

\* The producer is blocked on not_full, the consumer has just taken an
\* element and its notify_one() is still to come.
C35_Witness ==
    /\ backend = "MutexQueue" /\ harness = "two_threads"
    /\ Blocked(p) /\ ~full_unlocked /\ NotFullPending
    /\ c.call = "dequeue"

(* ----------------------- empty and full at once ------------------------ *)

\* The test by which try_enqueue refuses an element: next_tail == head in
\* the lock-free back-ends, full_unlocked() in MutexQueue.
FullNow == IF LockFree THEN increment(tail_) = head_ ELSE full_unlocked

\* The test by which try_dequeue returns nothing.
EmptyNow == head_ = tail_

\* C36: for every capacity that the static assertions of the back-ends
\* accept, no reachable state is at once empty (head == tail) and full
\* (next(tail) == head): the two conditions can always be told apart.
C36_EmptyOrFull == ~(EmptyNow /\ FullNow)

(* ------------- a timed bulk enqueue that runs out of time -------------- *)

\* The elements accepted by the calls before the call of producer record q:
\* the producer offers 1, 2, 3, ... and offers again what was not accepted.
AcceptedBefore(q) == [k \in 1..(q.data[1] - 1) |-> k]

\* The elements of sequence s.
Range(s) == {s[k] : k \in DOMAIN s}

\* C37: what a timed bulk enqueue stored before its deadline is not taken
\* back on timeout: when the call returns false after storing j of its n
\* elements (0 <= j < n), the queue holds its previous content followed by
\* exactly data[0..j) in order, these j elements reach the consumer like any
\* others, and data[j..n) were never stored.
C37_NoRollback ==
    (p.pc = "done" /\ BulkTimedEnqueue(p) /\ p.n > 0 /\ p.result = FALSE) =>
        LET j == p.total_enqueued
        IN  /\ j \in 0..(p.n - 1)
            /\ enqueued = AcceptedBefore(p) \o SubSeq(p.data, 1, j)
            /\ FifoPrefix
            /\ ~InCall(c) =>
                   Content = SubSeq(enqueued, Len(dequeued) + 1, Len(enqueued))
            /\ Quiescent => Content = PreContent(p) \o SubSeq(p.data, 1, j)
            /\ \A k \in (j + 1)..p.n :
                   /\ p.data[k] \notin Range(enqueued)
                   /\ p.data[k] \notin Range(buffer_)

\* A timed bulk enqueue has returned false after storing part of its range,
\* and the consumer has already received the first element of that part.
C37_Witness ==
    /\ harness = "two_threads"
    /\ p.pc = "done" /\ BulkTimedEnqueue(p) /\ p.n > 0 /\ p.result = FALSE
    /\ p.total_enqueued >= 1
    /\ p.data[1] \in Range(dequeued)

(* ------------ unsigned arithmetic of SPSC bulk try_enqueue ------------- *)

\* The producer is inside SPSC::try_enqueue(const T*, count), past the
\* computation of first_seg_size.
InBulkEnqueue ==
    /\ backend = "SPSC" /\ p.pc \in {"seg1", "seg2", "store"}
    /\ p.call \in {"try_enqueue_bulk", "enqueue_bulk"}

\* The unsigned subtraction a - b does not wrap around.
NoWrap(a, b) == a >= b /\ USub(a, b) = a - b

\* min(count, available) on the exact integers.
Planned ==
    Min(p.count,
        IF p.current_tail >= p.current_head
        THEN (Capacity - 1) - (p.current_tail - p.current_head)
        ELSE p.current_head - p.current_tail - 1)

\* The second segment has been entered: its loop runs, or has run.
InSecondSeg == p.pc = "seg2" \/ (p.pc = "store" /\ p.second_seg_size > 0)

\* C38: in the bulk try_enqueue of the lock-free SPSC the unsigned
\* subtractions never wrap around: the second segment is entered only when
\* the head snapshot is >= 1 (current_head - 1 does not underflow), in the
\* wrapped case tail < head holds (current_head - tail - 1 does not
\* underflow), the size of the second segment always equals the number of
\* elements still to write, and first and second segment together write
\* exactly min(count, available) slots.
C38_NoUnderflow ==
    InBulkEnqueue =>
        /\ IF p.current_tail >= p.current_head
           THEN /\ NoWrap(p.current_tail, p.current_head)
                /\ NoWrap(Capacity - 1, p.current_tail - p.current_head)
                /\ NoWrap(Capacity, p.current_tail)
           ELSE /\ NoWrap(p.current_head, p.current_tail)
                /\ NoWrap(p.current_head - p.current_tail, 1)
        /\ NoWrap(Planned, p.first_seg_size)
        /\ InSecondSeg =>
               /\ NoWrap(p.current_head, 1)
               /\ p.second_seg_size = Planned - p.first_seg_size
               /\ p.second_seg_size <= p.current_head - 1
        /\ p.pc = "store" =>
               /\ p.enqueued_total = Planned
               /\ p.first_seg_size + p.second_seg_size = Planned
               /\ p.call = "try_enqueue_bulk" =>
                      Cardinality(p.written) = Planned

\* Both segments of a bulk try_enqueue have been written, one element or
\* more each, and tail_ is about to be stored.
C38_Witness ==
    /\ InBulkEnqueue /\ p.pc = "store"
    /\ p.first_seg_size > 0 /\ p.second_seg_size > 0
    /\ harness = "two_threads"

====
